---------------------------- MODULE Spec2Model ----------------------------
(***************************************************************************)
(* A model of the interaction pipeline of backend/enhanced_persona_sync.py *)
(* (LLMRequester, EnhancedPersonaSync) over the store of                   *)
(* backend/ris_data_model.py (RISDataModel).                               *)
(*                                                                         *)
(* Numbers of the program that are fractions of one (PAD values, scores,   *)
(* confidences) are written in tenths: 5 stands for 0.5.                   *)
(* Strings of the program that are not ASCII are written by an ASCII       *)
(* stand-in, named where it is defined.                                    *)
(***************************************************************************)
EXTENDS Integers, Sequences, FiniteSets, TLC

(***************************************************************************)
(* JSON values, as json.loads builds them and as Python handles them: a    *)
(* value carries its type, because the program's operations ( .get, [key], *)
(* iteration, binding to an SQL parameter) succeed or raise by the type.   *)
(***************************************************************************)
JStr(s) == [t |-> "str", v |-> s]
JNum(n) == [t |-> "num", v |-> n]
JObj(m) == [t |-> "obj", v |-> m]
JList(l) == [t |-> "list", v |-> l]
JNull == [t |-> "null", v |-> "None"]

\* The empty dict {} : a mapping with no key.
EmptyObj == [k \in {} |-> JNull]

\* dict.get(key, default)
Get(obj, key, default) == IF key \in DOMAIN obj THEN obj[key] ELSE default

\* dict[key] = value on a copy: a later member of a JSON text replaces an earlier one
Put(obj, key, value) == [k \in DOMAIN obj \cup {key} |-> IF k = key THEN value ELSE obj[k]]

\* Python truthiness of a JSON value (the `x or default` idiom of the store).
Truthy(j) ==
    CASE j.t = "null" -> FALSE
      [] j.t = "str" -> j.v # ""
      [] j.t = "num" -> j.v # 0
      [] j.t = "obj" -> DOMAIN j.v # {}
      [] j.t = "list" -> Len(j.v) > 0

(***************************************************************************)
(* Model output text.  A text is a sequence of tokens: an opening brace, a *)
(* closing brace, a comma, a run of prose (anything holding no brace), or  *)
(* one member  "key": value  of a JSON object.                             *)
(***************************************************************************)
LB == [t |-> "lb"]
RB == [t |-> "rb"]
CM == [t |-> "comma"]
PROSE == [t |-> "prose"]
Mem(key, value) == [t |-> "mem", k |-> key, v |-> value]

\* str.find: the 0-based index of the first token of the kind, -1 when there is none
Find(txt, kind) ==
    IF \E i \in 1..Len(txt) : txt[i].t = kind
    THEN (CHOOSE i \in 1..Len(txt) : txt[i].t = kind /\ \A j \in 1..(i-1) : txt[j].t # kind) - 1
    ELSE -1

\* str.find in the place of str.rfind
RFindFirst(txt, kind) == Find(txt, kind)

\* str.rfind: the 0-based index of the last token of the kind, -1 when there is none
RFind(txt, kind) ==
    IF \E i \in 1..Len(txt) : txt[i].t = kind
    THEN (CHOOSE i \in 1..Len(txt) : txt[i].t = kind /\ \A j \in (i+1)..Len(txt) : txt[j].t # kind) - 1
    ELSE -1

\* txt[start:end] of Python for end >= 0: a negative start counts from the end
PySlice(txt, start, end) ==
    LET n == Len(txt)
        s0 == IF start < 0 THEN start + n ELSE start
        s == IF s0 < 0 THEN 0 ELSE IF s0 > n THEN n ELSE s0
        e == IF end > n THEN n ELSE end
    IN IF s >= e THEN << >> ELSE SubSeq(txt, s + 1, e)

\* The members of an object after position i (1-based), read left to right.
RECURSIVE ParseMembers(_, _, _)
ParseMembers(toks, i, acc) ==
    IF i > Len(toks) \/ toks[i].t # "mem" THEN [ok |-> FALSE, val |-> EmptyObj]
    ELSE LET obj == Put(acc, toks[i].k, toks[i].v)
         IN IF i + 1 > Len(toks) THEN [ok |-> FALSE, val |-> EmptyObj]
            ELSE IF toks[i+1].t = "rb"
                 THEN [ok |-> (i + 1 = Len(toks)), val |-> obj]
            ELSE IF toks[i+1].t = "comma" THEN ParseMembers(toks, i + 2, obj)
            ELSE [ok |-> FALSE, val |-> EmptyObj]

\* json.loads of a token sequence: ok with the object, or not ok (JSONDecodeError)
JsonLoads(toks) ==
    IF Len(toks) < 2 \/ toks[1].t # "lb" THEN [ok |-> FALSE, val |-> EmptyObj]
    ELSE IF toks[2].t = "rb" THEN [ok |-> (Len(toks) = 2), val |-> EmptyObj]
    ELSE ParseMembers(toks, 2, EmptyObj)


(***************************************************************************)
(* LLMRequester: the retry loop of _post and the chat calls over it.       *)
(***************************************************************************)
\* LLMRequester.__init__: max_retries defaults to 2
DefaultMaxRetries == 2

\* Largest max_retries a requester is constructed with where _post runs alone.
MaxRetriesBound == 3

\* The state of one _post call as it starts: no attempt made.
PostStart == [attempt |-> 0, status |-> "running", slept |-> 0, log |-> << >>, data |-> << >>]

\* Whether the for loop of _post has another iteration to run.
PostHasNext(st, mr) == st.status = "running" /\ st.attempt < mr + 1

\* The loop of _post over range(max_retries): one attempt fewer
PostIterShort(st, mr, ok, body) ==
    IF ok
    THEN [st EXCEPT !.status = "returned", !.data = body,
                    !.log = Append(@, [ok |-> TRUE, body |-> body])]
    ELSE [st EXCEPT !.attempt = @ + 1,
                    !.slept = @ + (st.attempt + 1) * 2,
                    !.log = Append(@, [ok |-> FALSE, body |-> body]),
                    !.status = IF st.attempt + 1 < mr THEN "running" ELSE "raised"]

\* One iteration of the for loop of _post.  ok: requests.post, raise_for_status
\* and rsp.json() all succeeded; body: what rsp.json() gave.  A failed attempt
\* sleeps (attempt + 1) * 2 seconds (the random part left out) and goes on; when
\* the range is used up the loop is left and RuntimeError is raised.
PostIter(st, mr, ok, body) ==
    IF ok
    THEN [st EXCEPT !.status = "returned", !.data = body,
                    !.log = Append(@, [ok |-> TRUE, body |-> body])]
    ELSE [st EXCEPT !.attempt = @ + 1,
                    !.slept = @ + (st.attempt + 1) * 2,
                    !.log = Append(@, [ok |-> FALSE, body |-> body]),
                    !.status = IF st.attempt + 1 < mr + 1 THEN "running" ELSE "raised"]

\* _post run to its end against the answers the endpoint gives to the attempts
\* (answers[i] the answer to attempt i, if it is made).
RECURSIVE PostRun(_, _, _)
PostRun(st, mr, answers) ==
    IF ~PostHasNext(st, mr) THEN st
    ELSE LET a == answers[st.attempt + 1]
         IN PostRun(PostIter(st, mr, a.ok, a.body), mr, answers)

\* chat / chat_with_image: the content of the first choice's message (a body is
\* written by the content it carries); the RuntimeError of _post passes through.
ChatResult(st) ==
    IF st.status = "raised" THEN [raised |-> TRUE, content |-> << >>]
    ELSE [raised |-> FALSE, content |-> st.data]

(***************************************************************************)
(* EnhancedPersonaSync._ask_json                                           *)
(***************************************************************************)
\* The body of the try block: the exception it ends with ("none": it returned)
AskJsonTry(chat) ==
    IF chat.raised THEN [exc |-> "RuntimeError", val |-> EmptyObj]
    ELSE LET txt == chat.content
             start == Find(txt, "lb")
             end == RFind(txt, "rb") + 1
             r == JsonLoads(PySlice(txt, start, end))
         IN IF r.ok THEN [exc |-> "none", val |-> r.val]
            ELSE [exc |-> "JSONDecodeError", val |-> EmptyObj]

\* `except Exception`: every exception the try block can end with is caught
AskJsonCatches(exc) == exc \in {"RuntimeError", "JSONDecodeError"}

AskJson(chat, fallback) ==
    LET r == AskJsonTry(chat)
    IN IF r.exc = "none" THEN r
       ELSE IF AskJsonCatches(r.exc) THEN [exc |-> "none", val |-> fallback]
       ELSE r


(***************************************************************************)
(* The store (RISDataModel): one set of rows per table.  Rows are never    *)
(* deleted, so a row's number in its table (its rowid) is the count of the *)
(* rows before it plus one; it also stands for the row's uuid (unique in   *)
(* the table) and for its timestamp (later inserts have later times).      *)
(***************************************************************************)
VARIABLES
    max_retries,    \* LLMRequester.max_retries
    post,           \* the _post call in progress, where _post runs alone (SpecPost)
    ex,             \* the _ask_json call, where _ask_json runs alone (SpecExtract)
    rep,            \* the call of the report generator, where it runs alone
    profiles,       \* table user_profiles, by its primary key user_id
    logs,           \* table interaction_logs
    analyses,       \* table emotion_analysis
    personas,       \* table personas
    memories,       \* table memory_events
    pc,             \* where each caller's process_interaction stands
    loc,            \* the arguments and local variables of each caller's call
    done,           \* what the finished calls gave their callers
    started,        \* number of calls started so far
    devs            \* number of inputs and responses so far that were not the plain one

vars == <<max_retries, post, ex, rep, profiles, logs, analyses, personas, memories,
          pc, loc, done, started, devs>>

store == <<profiles, logs, analyses, personas, memories>>

\* The rowid of the next row of a table
NextRow(table) == Cardinality(table) + 1

Users == {"u1", "u2"}
Procs == {1, 2}

\* Calls started in one run.
MaxCalls == 2

\* Inputs and model responses in one run that depart from the plain case.
MaxDevs == 1

\* EnhancedPersonaSync.DEFAULT_PERSONA; the name stands for the program's "小助手"
DEFAULT_PERSONA ==
    [name |-> JStr("XiaoZhuShou"),
     personality_traits |-> JList(<<JStr("kind"), JStr("patient"), JStr("understanding"), JStr("supportive")>>),
     communication_style |-> JStr("gentle"),
     avatar_type |-> JStr("friend")]

\* A value sqlite3 binds to a parameter: a dict or a list is refused
Bindable(j) == j.t \in {"str", "num", "null"}

\* A column of TEXT affinity keeps a number as its text
AsText(j) == IF j.t = "num" THEN JStr(ToString(j.v)) ELSE j

\* A set of numbers as the sequence that lists it in ascending order
Ascending(keys) ==
    [i \in 1..Cardinality(keys) |->
        CHOOSE k \in keys : Cardinality({o \in keys : o < k}) = i - 1]

Reverse(seq) == [i \in 1..Len(seq) |-> seq[Len(seq) + 1 - i]]

\* The first n elements: LIMIT n, seq[:n]
Take(seq, n) == IF Len(seq) <= n THEN seq ELSE SubSeq(seq, 1, n)

\* RISDataModel.get_user_profile: the profile, or None (exists FALSE)
get_user_profile(user_id) == profiles[user_id]

\* RISDataModel.create_user_profile: INSERT OR REPLACE of the row of user_id.  The
\* time of a write of the row is written by the number of the write.
create_user_profile(user_id) ==
    [profiles EXCEPT ![user_id] =
        [exists |-> TRUE,
         emotion_baseline |-> <<0, 0, 0>>,
         memory_tags |-> <<"positive", "negative", "neutral">>,
         avatar_role |-> <<"friend">>,
         created_at |-> profiles[user_id].created_at + 1]]

\* RISDataModel.get_personas: the user's personas, in the order of insertion
get_personas(user_id) ==
    LET rows == {r \in personas : r.user_id = user_id}
        order == Ascending({r.persona_id : r \in rows})
    IN [i \in DOMAIN order |-> CHOOSE r \in rows : r.persona_id = order[i]]

\* RISDataModel.create_persona: the new row; its id is the uuid drawn
create_persona(user_id, name, personality_traits, communication_style, avatar_type) ==
    [persona_id |-> NextRow(personas),
     user_id |-> user_id,
     name |-> AsText(name),
     personality_traits |-> IF Truthy(personality_traits) THEN personality_traits ELSE JList(<< >>),
     communication_style |-> IF Truthy(communication_style) THEN AsText(communication_style) ELSE JStr("neutral"),
     interaction_count |-> 0,
     created_at |-> NextRow(personas),
     avatar_type |-> AsText(avatar_type)]

\* RISDataModel.log_interaction: the new row, with empty processing_metadata
log_interaction(user_id, detected_emotion, emotion_label, image) ==
    [log_id |-> NextRow(logs),
     user_id |-> user_id,
     timestamp |-> NextRow(logs),
     detected_emotion |-> detected_emotion,
     emotion_label |-> AsText(emotion_label),
     raw_image |-> image,
     processing_metadata |-> EmptyObj]

\* RISDataModel.save_emotion_analysis: the new row
save_emotion_analysis(interaction_log_id, pad_values, emotion_categories, confidence_scores, analysis_method) ==
    [analysis_id |-> NextRow(analyses),
     interaction_log_id |-> interaction_log_id,
     pad_values |-> pad_values,
     emotion_categories |-> emotion_categories,
     confidence_scores |-> confidence_scores,
     analysis_method |-> AsText(analysis_method),
     created_at |-> NextRow(analyses)]

\* create_memory_event that keeps no reference to the log
create_memory_eventDetached(user_id, interaction_log_id, emotion_annotation, linked_topic, memory_type, importance_score, media_reference, tags, entities) ==
    [memory_id |-> NextRow(memories),
     user_id |-> user_id,
     interaction_log_id |-> 0,
     media_reference |-> IF Truthy(media_reference) THEN media_reference ELSE JStr(""),
     emotion_annotation |-> emotion_annotation,
     linked_topic |-> IF Truthy(linked_topic) THEN AsText(linked_topic) ELSE JStr(""),
     memory_type |-> AsText(memory_type),
     importance_score |-> importance_score,
     created_at |-> NextRow(memories),
     tags |-> IF Truthy(tags) THEN tags ELSE JList(<< >>),
     entities |-> IF Truthy(entities) THEN entities ELSE JObj(EmptyObj)]

\* RISDataModel.create_memory_event: the new row.  The parameters are those of the
\* signature, in its order; `x or default` replaces a falsy argument.
create_memory_event(user_id, interaction_log_id, emotion_annotation, linked_topic, memory_type, importance_score, media_reference, tags, entities) ==
    [memory_id |-> NextRow(memories),
     user_id |-> user_id,
     interaction_log_id |-> interaction_log_id,
     media_reference |-> IF Truthy(media_reference) THEN media_reference ELSE JStr(""),
     emotion_annotation |-> emotion_annotation,
     linked_topic |-> IF Truthy(linked_topic) THEN AsText(linked_topic) ELSE JStr(""),
     memory_type |-> AsText(memory_type),
     importance_score |-> importance_score,
     created_at |-> NextRow(memories),
     tags |-> IF Truthy(tags) THEN tags ELSE JList(<< >>),
     entities |-> IF Truthy(entities) THEN entities ELSE JObj(EmptyObj)]

\* The logs of a user oldest first: ORDER BY timestamp without DESC
get_interaction_logsOldest(user_id, limit) ==
    LET rows == {r \in logs : r.user_id = user_id}
        order == Ascending({r.timestamp : r \in rows})
    IN Take([i \in DOMAIN order |-> CHOOSE r \in rows : r.timestamp = order[i]], limit)

\* RISDataModel.get_interaction_logs: the user's logs, newest first, at most limit
get_interaction_logs(user_id, limit) ==
    LET rows == {r \in logs : r.user_id = user_id}
        order == Reverse(Ascending({r.timestamp : r \in rows}))
    IN Take([i \in DOMAIN order |-> CHOOSE r \in rows : r.timestamp = order[i]], limit)

\* The memories of every user, newest first: the WHERE clause left out
get_memory_eventsAnyUser(user_id, limit) ==
    LET order == Reverse(Ascending({r.created_at : r \in memories}))
    IN Take([i \in DOMAIN order |-> CHOOSE r \in memories : r.created_at = order[i]], limit)

\* RISDataModel.get_memory_events (no type given): newest first, at most limit
get_memory_events(user_id, limit) ==
    LET rows == {r \in memories : r.user_id = user_id}
        order == Reverse(Ascending({r.created_at : r \in rows}))
    IN Take([i \in DOMAIN order |-> CHOOSE r \in rows : r.created_at = order[i]], limit)

\* RISDataModel.get_memory_events with a memory_type, lines 411-417; an empty
\* memory_type is no type (line 411)
get_memory_events_typed(user_id, memory_type, limit) ==
    IF ~Truthy(memory_type) THEN get_memory_events(user_id, limit)
    ELSE Take(SelectSeq(get_memory_events(user_id, Cardinality(memories)),
                        LAMBDA r : r.memory_type = memory_type), limit)

\* An update of assistant_reply without its WHERE clause: every log gets the reply
save_assistant_replyEveryLog(log_id, reply) ==
    {[r EXCEPT !.processing_metadata = Put(@, "assistant_reply", reply)] : r \in logs}

\* RISDataModel.save_assistant_reply: json_set of assistant_reply on the row of log_id
save_assistant_reply(log_id, reply) ==
    {IF r.log_id = log_id
     THEN [r EXCEPT !.processing_metadata = Put(@, "assistant_reply", reply)]
     ELSE r : r \in logs}

\* An increment that writes 1 over the count: an update computed from a count
\* read when no other call had yet written
increment_persona_interactionLost(persona_id) ==
    {IF r.persona_id = persona_id
     THEN [r EXCEPT !.interaction_count = 1]
     ELSE r : r \in personas}

\* RISDataModel.increment_persona_interaction: interaction_count + 1 on the row
increment_persona_interaction(persona_id) ==
    {IF r.persona_id = persona_id
     THEN [r EXCEPT !.interaction_count = @ + 1]
     ELSE r : r \in personas}

\* RISDataModel.get_statistics: the counts of the user's rows
get_statistics(user_id) ==
    [interaction_count |-> Cardinality({r \in logs : r.user_id = user_id}),
     memory_count |-> Cardinality({r \in memories : r.user_id = user_id}),
     persona_count |-> Cardinality({r \in personas : r.user_id = user_id})]


(***************************************************************************)
(* What the endpoint answers.  Each stage has its plain responses and the  *)
(* others it may meet; a request can also fail at transport.               *)
(***************************************************************************)
RECURSIVE Commas(_)
Commas(members) ==
    IF Len(members) <= 1 THEN members
    ELSE <<Head(members), CM>> \o Commas(Tail(members))

\* The text of a JSON object with the members, and one that is no JSON at all
Obj(members) == <<LB>> \o Commas(members) \o <<RB>>
Prose == <<PROSE>>

\* The persons lists of the entity responses: the usual one names the default
\* persona and one other person, the other one names a person twice.
PersonsPlain == <<DEFAULT_PERSONA.name, JStr("Alice")>>
PersonsTwice == <<JStr("Alice"), JStr("Alice")>>

EntitiesOf(persons) ==
    <<Mem("persons", JList(persons)),
      Mem("locations", JList(<<JStr("Paris")>>)),
      Mem("time_expressions", JList(<< >>)),
      Mem("events", JList(<< >>)),
      Mem("organizations", JList(<< >>))>>

EmotionPlain ==
    {Obj(<<Mem("pad_values", JObj([pleasure |-> JNum(7), arousal |-> JNum(6), dominance |-> JNum(5)])),
           Mem("emotion_category", JObj([emotion |-> JStr("happy"), label |-> JStr("positive"), intensity |-> JNum(7)])),
           Mem("confidence", JNum(8))>>)}
\* Pleasure 1.7 and a label of the model's own
EmotionWild ==
    Obj(<<Mem("pad_values", JObj([pleasure |-> JNum(17), arousal |-> JNum(6), dominance |-> JNum(5)])),
          Mem("emotion_category", JObj([emotion |-> JStr("joy"), label |-> JStr("excited"), intensity |-> JNum(7)])),
          Mem("confidence", JNum(8))>>)
EmotionOther ==
    {Prose,
     Obj(<<Mem("emotion_category", JStr("happy"))>>),
     Obj(<<Mem("analysis_method", JList(<<JStr("llm")>>)), Mem("confidence", JNum(8))>>),
     EmotionWild}

EntitiesPlain == {Obj(EntitiesOf(PersonsPlain))}
EntitiesOther == {Prose, Obj(<< >>), Obj(EntitiesOf(PersonsTwice))}

StylePlain == {Obj(<<Mem("formality", JStr("formal"))>>)}
StyleOther == {Prose}

TemporalPlain == {Obj(<<Mem("temporal", JStr("today"))>>)}
TemporalOther == {Prose}

InfoPlain == {Obj(<<Mem("personality_traits", JList(<<JStr("cheerful")>>)), Mem("avatar_type", JStr("colleague"))>>)}
InfoOther == {Prose, Obj(<<Mem("avatar_type", JStr("colleague"))>>)}

TopicPlain == {Obj(<<Mem("topic", JStr("movie"))>>)}
TopicOther == {Prose, Obj(<<Mem("subject", JStr("movie"))>>)}

ScorePlain == {Obj(<<Mem("score", JNum(9))>>)}
ScoreOther ==
    {Prose, Obj(<<Mem("rating", JNum(9))>>), Obj(<<Mem("score", JNum(15))>>),
     Obj(<<Mem("score", JNull), Mem("reason", JStr("unclear"))>>)}

\* A free-text answer (a caption, a reply): its content is not looked into
FreeText == {Prose}

\* The answers the endpoint gives to the attempts of one request whose body, when
\* an attempt succeeds, carries the text
Answers(text) ==
    {[i \in 1..(max_retries + 1) |-> [ok |-> oks[i], body |-> text]] :
        oks \in [1..(max_retries + 1) -> BOOLEAN]}

\* What llm.chat can give for a request whose answer carries one of the texts
Chats(texts) ==
    {ChatResult(PostRun(PostStart, max_retries, a)) : a \in UNION {Answers(text) : text \in texts}}

\* 1 when the outcome of a request is not a plain one
Dev(chat, plain) == IF chat.raised \/ chat.content \notin plain THEN 1 ELSE 0

(***************************************************************************)
(* The fallbacks of the stages of the pipeline.                            *)
(***************************************************************************)
\* _analyze_emotion: the fallback handed to _ask_json
EmotionFallback ==
    [pad_values |-> JObj([pleasure |-> JNum(5), arousal |-> JNum(5), dominance |-> JNum(5)]),
     emotion_category |-> JObj([label |-> JStr("neutral"), emotion |-> JStr("neutral"), intensity |-> JNum(0)]),
     analysis_method |-> JStr("fallback")]

\* _JSON_FALLBACK_ENTITIES
JSON_FALLBACK_ENTITIES ==
    [persons |-> JList(<< >>), locations |-> JList(<< >>), time_expressions |-> JList(<< >>),
     events |-> JList(<< >>), organizations |-> JList(<< >>)]

\* _create_personas: the fallback of the trait inference; "ordinary" stands for "普通"
InfoFallback == [personality_traits |-> JList(<<JStr("ordinary")>>), avatar_type |-> JStr("friend")]

\* _create_memories: the fallbacks; "daily_chat" stands for "日常对话"
TopicFallback == [topic |-> JStr("daily_chat")]
ScoreFallback == [score |-> JNum(5)]


(***************************************************************************)
(* EnhancedPersonaSync.process_interaction, one action per store call and  *)
(* per request to the endpoint.                                            *)
(***************************************************************************)
NoImage == [given |-> FALSE, format |-> "", empty |-> FALSE]

\* The image files a call is given: by extension, and whether the file is empty.
ImageChoices ==
    {NoImage,
     [given |-> TRUE, format |-> "png", empty |-> FALSE],
     [given |-> TRUE, format |-> "gif", empty |-> FALSE]}

\* _analyze_image: the format sent for an extension, or the ValueError
AnalyzeImageFormat(ext) ==
    IF ext \in {"jpe", "jpg"} THEN [ok |-> TRUE, format |-> "jpeg"]
    ELSE IF ext \in {"tif", "tiff"} THEN [ok |-> TRUE, format |-> "tiff"]
    ELSE IF ext \notin {"bmp", "png", "webp", "heic"} THEN [ok |-> FALSE, format |-> ext]
    ELSE [ok |-> TRUE, format |-> ext]

\* The arguments and locals of a call that has not begun (and of a caller at rest).
IdleLoc ==
    [id |-> 0, user_id |-> "", persona_id |-> 0, image |-> NoImage,
     image_content |-> JNull, pad |-> EmptyObj, log_id |-> 0,
     entities |-> EmptyObj, style |-> EmptyObj, idx |-> 1, info |-> EmptyObj,
     new_ps |-> << >>, upd_ps |-> << >>, topic |-> JNull, score |-> JNull,
     mem_id |-> 0, speaker |-> 0, recent_logs |-> << >>, used_memories |-> << >>,
     messages |-> << >>, reply |-> 0,
     \* the number of llm.chat and llm.chat_with_image calls made so far, and the
     \* format of the image sent ("" when none was sent)
     requests |-> 0, image_sent |-> "",
     \* the stages that called llm.chat or llm.chat_with_image, in order
     asked |-> << >>,
     \* history of the call: whether a request failed at transport, whether the
     \* emotion response did not parse, what the lookup of the default persona saw
     \* and what _ensure_default_persona made and returned, the number of
     \* inference requests, the user's personas when the call began
     tfail |-> FALSE, emo_unparsed |-> FALSE, ensure_seen |-> 0, default_created |-> 0,
     default_id |-> 0, infers |-> 0, known0 |-> {},
     \* the unusual events that had happened when the call began
     devs0 |-> 0,
     status |-> "running", exc |-> "none", stage |-> "none"]

Goto(p, next, newloc) ==
    /\ pc' = [pc EXCEPT ![p] = next]
    /\ loc' = [loc EXCEPT ![p] = newloc]

\* The call ends by raising exc to its caller.
RaiseAt(p, exc, l) ==
    /\ done' = done \cup {[l EXCEPT !.status = "raised", !.exc = exc, !.stage = pc[p]]}
    /\ pc' = [pc EXCEPT ![p] = "idle"]
    /\ loc' = [loc EXCEPT ![p] = IdleLoc]

Raise(p, exc) == RaiseAt(p, exc, loc[p])

\* llm.chat or llm.chat_with_image was called
Requested(l, stage) == [l EXCEPT !.requests = @ + 1, !.asked = Append(@, stage)]

\* What a request of a stage leaves in the history of the call.
Noted(l, stage, chat) ==
    [l EXCEPT !.requests = @ + 1,
              !.asked = Append(@, stage),
              !.tfail = @ \/ chat.raised,
              !.emo_unparsed = @ \/ (stage = "emotion" /\ AskJsonTry(chat).exc = "JSONDecodeError")]

\* A caller calls process_interaction(user_id, text, persona_id=..., image_path=...).
\* The callers of a specification send the images of usual to it; any other
\* image, and a persona_id, is drawn on the budget of unusual events.
Begin(p, users, usual, calls) ==
    /\ pc[p] = "idle"
    /\ started < calls
    /\ \E user_id \in users, persona_id \in {0} \cup {r.persona_id : r \in personas}, image \in ImageChoices \cup usual :
          LET d == (IF persona_id # 0 THEN 1 ELSE 0) + (IF image \in usual THEN 0 ELSE 1)
          IN /\ devs + d <= MaxDevs
             /\ devs' = devs + d
             /\ Goto(p, "get_profile",
                     [IdleLoc EXCEPT !.id = started + 1, !.user_id = user_id,
                                     !.persona_id = persona_id, !.image = image,
                                     !.devs0 = devs,
                                     !.known0 = {r.persona_id : r \in {o \in personas : o.user_id = user_id}}])
    /\ started' = started + 1
    /\ UNCHANGED <<max_retries, post, ex, rep, store, done>>

\* The callers of Spec and SpecSeq make MaxCalls calls
Start(p, users, usual) == Begin(p, users, usual, MaxCalls)

\* line 158: if not self.db.get_user_profile(user_id)
GetProfile(p) ==
    /\ pc[p] = "get_profile"
    /\ Goto(p, IF get_user_profile(loc[p].user_id).exists THEN "ensure_lookup" ELSE "create_profile", loc[p])
    /\ UNCHANGED <<max_retries, post, ex, rep, store, done, started, devs>>

\* line 159: self.db.create_user_profile(user_id)
CreateProfile(p) ==
    /\ pc[p] = "create_profile"
    /\ profiles' = create_user_profile(loc[p].user_id)
    /\ Goto(p, "ensure_lookup", loc[p])
    /\ UNCHANGED <<max_retries, post, ex, rep, logs, analyses, personas, memories, done, started, devs>>

\* The entity request moved before the emotion request
AfterBootstrapEntities(l) == "entities"

\* Where a call goes after the bootstrap: line 161
AfterBootstrap(l) == IF l.image.given THEN "image" ELSE "emotion"

\* _ensure_default_persona without the test of line 319: it always creates
EnsureLookupBlind(p) ==
    /\ pc[p] = "ensure_lookup"
    /\ Goto(p, "ensure_create", [loc[p] EXCEPT !.ensure_seen = Cardinality(personas)])
    /\ UNCHANGED <<max_retries, post, ex, rep, store, done, started, devs>>

\* _ensure_default_persona, the lookup: lines 317-319
EnsureLookup(p) ==
    /\ pc[p] = "ensure_lookup"
    /\ LET known == get_personas(loc[p].user_id)
           named == {i \in DOMAIN known : known[i].name = DEFAULT_PERSONA.name}
       IN IF named # {}
          THEN Goto(p, AfterBootstrap(loc[p]),
                    [loc[p] EXCEPT !.ensure_seen = Cardinality(personas),
                                   !.default_id = known[Ascending(named)[1]].persona_id])
          ELSE Goto(p, "ensure_create", [loc[p] EXCEPT !.ensure_seen = Cardinality(personas)])
    /\ UNCHANGED <<max_retries, post, ex, rep, store, done, started, devs>>

\* _ensure_default_persona that finds no default persona and creates none
EnsureCreateNothing(p) ==
    /\ pc[p] = "ensure_create"
    /\ Goto(p, AfterBootstrap(loc[p]), loc[p])
    /\ UNCHANGED <<max_retries, post, ex, rep, store, done, started, devs>>

\* _ensure_default_persona, the creation: line 320
EnsureCreate(p) ==
    /\ pc[p] = "ensure_create"
    /\ personas' = personas \cup
          {create_persona(loc[p].user_id, DEFAULT_PERSONA.name, DEFAULT_PERSONA.personality_traits,
                          DEFAULT_PERSONA.communication_style, DEFAULT_PERSONA.avatar_type)}
    /\ Goto(p, AfterBootstrap(loc[p]), [loc[p] EXCEPT !.default_created = NextRow(personas),
                                                      !.default_id = NextRow(personas)])
    /\ UNCHANGED <<max_retries, post, ex, rep, profiles, logs, analyses, memories, done, started, devs>>

\* An image grounding that validates the image after its request was made
AnalyzeImageLate(p) ==
    /\ pc[p] = "image"
    /\ \E chat \in Chats(FreeText) :
          /\ devs + Dev(chat, FreeText) <= MaxDevs
          /\ devs' = devs + Dev(chat, FreeText)
          /\ LET sent == [Requested(loc[p], "caption") EXCEPT
                              !.image_sent = AnalyzeImageFormat(loc[p].image.format).format]
             IN IF chat.raised
                THEN RaiseAt(p, "RuntimeError", sent)
                ELSE IF loc[p].image.empty \/ ~AnalyzeImageFormat(loc[p].image.format).ok
                THEN RaiseAt(p, "ValueError", sent)
                ELSE /\ Goto(p, "emotion", [sent EXCEPT !.image_content = JStr("caption")])
                     /\ UNCHANGED done
    /\ UNCHANGED <<max_retries, post, ex, rep, store, started>>

\* _analyze_image: lines 438-459.  Neither the ValueError nor the RuntimeError of
\* chat_with_image is caught.
AnalyzeImage(p) ==
    /\ pc[p] = "image"
    /\ IF loc[p].image.empty \/ ~AnalyzeImageFormat(loc[p].image.format).ok
       THEN Raise(p, "ValueError") /\ UNCHANGED devs
       ELSE \E chat \in Chats(FreeText) :
               /\ devs + Dev(chat, FreeText) <= MaxDevs
               /\ devs' = devs + Dev(chat, FreeText)
               /\ LET sent == [Requested(loc[p], "caption") EXCEPT
                                   !.image_sent = AnalyzeImageFormat(loc[p].image.format).format]
                  IN IF chat.raised
                     THEN RaiseAt(p, "RuntimeError", sent)
                     ELSE /\ Goto(p, "emotion", [sent EXCEPT !.image_content = JStr("caption")])
                          /\ UNCHANGED done
    /\ UNCHANGED <<max_retries, post, ex, rep, store, started>>

\* _analyze_emotion: line 164
AnalyzeEmotion(p) ==
    /\ pc[p] = "emotion"
    /\ \E chat \in Chats(EmotionPlain \cup EmotionOther) :
          /\ devs + Dev(chat, EmotionPlain) <= MaxDevs
          /\ devs' = devs + Dev(chat, EmotionPlain)
          /\ Goto(p, "log", [Noted(loc[p], "emotion", chat) EXCEPT !.pad = AskJson(chat, EmotionFallback).val])
    /\ UNCHANGED <<max_retries, post, ex, rep, store, done, started>>

\* pad.get("emotion_category", {}) ; a value that is no dict has no .get
EmotionCategory(pad) == Get(pad, "emotion_category", JObj(EmptyObj))
EmotionLabel(pad) == Get(EmotionCategory(pad).v, "label", JStr("neutral"))

\* lines 165-171: self.db.log_interaction(...)
LogInteraction(p) ==
    /\ pc[p] = "log"
    /\ IF EmotionCategory(loc[p].pad).t # "obj"
       THEN Raise(p, "AttributeError") /\ UNCHANGED store
       ELSE IF ~Bindable(EmotionLabel(loc[p].pad))
       THEN Raise(p, "ProgrammingError") /\ UNCHANGED store
       ELSE /\ logs' = logs \cup
                 {log_interaction(loc[p].user_id, Get(loc[p].pad, "pad_values", JObj(EmptyObj)),
                                  EmotionLabel(loc[p].pad), loc[p].image_content)}
            /\ Goto(p, "save_analysis", [loc[p] EXCEPT !.log_id = NextRow(logs)])
            /\ UNCHANGED <<profiles, analyses, personas, memories, done>>
    /\ UNCHANGED <<max_retries, post, ex, rep, started, devs>>

\* lines 172-173: self.db.save_emotion_analysis(...)
SaveAnalysis(p) ==
    /\ pc[p] = "save_analysis"
    /\ IF ~Bindable(Get(loc[p].pad, "analysis_method", JStr("llm")))
       THEN Raise(p, "ProgrammingError") /\ UNCHANGED store
       ELSE /\ analyses' = analyses \cup
                 {save_emotion_analysis(loc[p].log_id,
                                        Get(loc[p].pad, "pad_values", JObj(EmptyObj)),
                                        EmotionCategory(loc[p].pad),
                                        [confidence |-> Get(loc[p].pad, "confidence", JNum(5))],
                                        Get(loc[p].pad, "analysis_method", JStr("llm")))}
            /\ Goto(p, "entities", loc[p])
            /\ UNCHANGED <<profiles, logs, personas, memories, done>>
    /\ UNCHANGED <<max_retries, post, ex, rep, started, devs>>

\* _extract_entities: line 175
ExtractEntities(p) ==
    /\ pc[p] = "entities"
    /\ \E chat \in Chats(EntitiesPlain \cup EntitiesOther) :
          /\ devs + Dev(chat, EntitiesPlain) <= MaxDevs
          /\ devs' = devs + Dev(chat, EntitiesPlain)
          /\ Goto(p, "style", [Noted(loc[p], "entities", chat) EXCEPT
                                  !.entities = AskJson(chat, JSON_FALLBACK_ENTITIES).val])
    /\ UNCHANGED <<max_retries, post, ex, rep, store, done, started>>

\* _analyze_style: line 176
AnalyzeStyle(p) ==
    /\ pc[p] = "style"
    /\ \E chat \in Chats(StylePlain \cup StyleOther) :
          /\ devs + Dev(chat, StylePlain) <= MaxDevs
          /\ devs' = devs + Dev(chat, StylePlain)
          /\ Goto(p, "temporal", [Noted(loc[p], "style", chat) EXCEPT
                                     !.style = AskJson(chat, EmptyObj).val])
    /\ UNCHANGED <<max_retries, post, ex, rep, store, done, started>>

\* _extract_temporal: line 177.  Its value only passes through to the result.
ExtractTemporal(p) ==
    /\ pc[p] = "temporal"
    /\ \E chat \in Chats(TemporalPlain \cup TemporalOther) :
          /\ devs + Dev(chat, TemporalPlain) <= MaxDevs
          /\ devs' = devs + Dev(chat, TemporalPlain)
          /\ Goto(p, "cp_lookup", Noted(loc[p], "temporal", chat))
    /\ UNCHANGED <<max_retries, post, ex, rep, store, done, started>>


\* entities.get("persons", [])
Persons(entities) == Get(entities, "persons", JList(<< >>))

\* _create_personas without the test of line 287: every name is taken for new
PersonaLookupBlind(p) ==
    /\ pc[p] = "cp_lookup"
    /\ LET names == Persons(loc[p].entities).v
       IN IF loc[p].idx > Len(names)
          THEN Goto(p, "update_personas", [loc[p] EXCEPT !.idx = 1])
          ELSE Goto(p, "cp_infer", loc[p])
    /\ UNCHANGED <<max_retries, post, ex, rep, store, done, started, devs>>

\* The loop over the names as a while loop that forgets to step past a name the
\* user has a persona of
PersonaLookupStuck(p) ==
    /\ pc[p] = "cp_lookup"
    /\ LET names == Persons(loc[p].entities).v
           known == get_personas(loc[p].user_id)
       IN IF loc[p].idx > Len(names)
          THEN Goto(p, "update_personas", [loc[p] EXCEPT !.idx = 1])
          ELSE IF \E i \in DOMAIN known : known[i].name = names[loc[p].idx]
          THEN Goto(p, "cp_lookup", loc[p])
          ELSE Goto(p, "cp_infer", loc[p])
    /\ UNCHANGED <<max_retries, post, ex, rep, store, done, started, devs>>

\* _create_personas, the test of line 287 for the name at idx (and the end of the loop)
PersonaLookup(p) ==
    /\ pc[p] = "cp_lookup"
    /\ LET names == Persons(loc[p].entities).v
           known == get_personas(loc[p].user_id)
       IN IF loc[p].idx > Len(names)
          THEN Goto(p, "update_personas", [loc[p] EXCEPT !.idx = 1])
          ELSE IF \E i \in DOMAIN known : known[i].name = names[loc[p].idx]
          THEN Goto(p, "cp_lookup", [loc[p] EXCEPT !.idx = @ + 1])
          ELSE Goto(p, "cp_infer", loc[p])
    /\ UNCHANGED <<max_retries, post, ex, rep, store, done, started, devs>>

\* _create_personas, the inference request of lines 289-292
PersonaInfer(p) ==
    /\ pc[p] = "cp_infer"
    /\ \E chat \in Chats(InfoPlain \cup InfoOther) :
          /\ devs + Dev(chat, InfoPlain) <= MaxDevs
          /\ devs' = devs + Dev(chat, InfoPlain)
          /\ Goto(p, "cp_create", [Noted(loc[p], "persona", chat) EXCEPT
                                      !.info = AskJson(chat, InfoFallback).val,
                                      !.infers = @ + 1])
    /\ UNCHANGED <<max_retries, post, ex, rep, store, done, started>>

\* _create_personas, lines 293-298: info["personality_traits"], create_persona, append
PersonaCreate(p) ==
    /\ pc[p] = "cp_create"
    /\ LET name == Persons(loc[p].entities).v[loc[p].idx]
           info == loc[p].info
       IN IF "personality_traits" \notin DOMAIN info
          THEN Raise(p, "KeyError") /\ UNCHANGED store
          ELSE /\ personas' = personas \cup
                    {create_persona(loc[p].user_id, name, info["personality_traits"],
                                    Get(loc[p].style, "formality", JStr("neutral")),
                                    Get(info, "avatar_type", JStr("friend")))}
               /\ Goto(p, "cp_lookup",
                       [loc[p] EXCEPT !.new_ps = Append(@, [persona_id |-> NextRow(personas), name |-> name]),
                                      !.idx = @ + 1, !.info = EmptyObj])
               /\ UNCHANGED <<profiles, logs, analyses, memories, done>>
    /\ UNCHANGED <<max_retries, post, ex, rep, started, devs>>

\* _update_personas: line 302.  The style is not read after this point.
UpdatePersonas(p) ==
    /\ pc[p] = "update_personas"
    /\ LET names == Persons(loc[p].entities).v
           known == get_personas(loc[p].user_id)
           hits == {i \in DOMAIN known : \E j \in DOMAIN names : names[j] = known[i].name}
           order == Ascending(hits)
       IN Goto(p, "topic", [loc[p] EXCEPT !.upd_ps = [i \in DOMAIN order |-> known[order[i]].persona_id],
                                          !.style = EmptyObj])
    /\ UNCHANGED <<max_retries, post, ex, rep, store, done, started, devs>>

\* _create_memories, line 306: _ask_json(...)["topic"]
MemoryTopic(p) ==
    /\ pc[p] = "topic"
    /\ \E chat \in Chats(TopicPlain \cup TopicOther) :
          /\ devs + Dev(chat, TopicPlain) <= MaxDevs
          /\ devs' = devs + Dev(chat, TopicPlain)
          /\ LET obj == AskJson(chat, TopicFallback).val
             IN IF "topic" \notin DOMAIN obj
                THEN RaiseAt(p, "KeyError", Noted(loc[p], "topic", chat))
                ELSE /\ Goto(p, "score", [Noted(loc[p], "topic", chat) EXCEPT !.topic = obj["topic"]])
                     /\ UNCHANGED done
    /\ UNCHANGED <<max_retries, post, ex, rep, store, started>>

\* _create_memories, lines 307-309: _ask_json(...)["score"]
MemoryScore(p) ==
    /\ pc[p] = "score"
    /\ \E chat \in Chats(ScorePlain \cup ScoreOther) :
          /\ devs + Dev(chat, ScorePlain) <= MaxDevs
          /\ devs' = devs + Dev(chat, ScorePlain)
          /\ LET obj == AskJson(chat, ScoreFallback).val
             IN IF "score" \notin DOMAIN obj
                THEN RaiseAt(p, "KeyError", Noted(loc[p], "importance", chat))
                ELSE /\ Goto(p, "create_memory", [Noted(loc[p], "importance", chat) EXCEPT !.score = obj["score"]])
                     /\ UNCHANGED done
    /\ UNCHANGED <<max_retries, post, ex, rep, store, started>>

\* A score response that rates the turn low: 0.3
ScoreLow == {Obj(<<Mem("score", JNum(3))>>)}

\* _create_memories, line 308, answered with a low score
MemoryScoreLow(p) ==
    /\ pc[p] = "score"
    /\ \E chat \in {c \in Chats(ScoreLow) : ~c.raised} :
          Goto(p, "create_memory",
               [Noted(loc[p], "importance", chat) EXCEPT !.score = AskJson(chat, ScoreFallback).val["score"]])
    /\ UNCHANGED <<max_retries, post, ex, rep, store, done, started, devs>>

\* _create_memories, lines 310-312: the call passes eight arguments by position, so
\* [] is media_reference, the entities are tags, and entities keeps its default None
MemoryCreate(p) ==
    /\ pc[p] = "create_memory"
    /\ IF ~Bindable(loc[p].topic) \/ ~Bindable(loc[p].score)
       THEN Raise(p, "ProgrammingError") /\ UNCHANGED store
       ELSE /\ memories' = memories \cup
                 {create_memory_event(loc[p].user_id, loc[p].log_id, JObj(loc[p].pad), loc[p].topic,
                                      EmotionLabel(loc[p].pad), loc[p].score,
                                      JList(<< >>), JObj(loc[p].entities), JNull)}
            /\ Goto(p, "reply_personas", [loc[p] EXCEPT !.mem_id = NextRow(memories)])
            /\ UNCHANGED <<profiles, logs, analyses, personas, done>>
    /\ UNCHANGED <<max_retries, post, ex, rep, started, devs>>

\* A speaker looked up by persona_id among the personas of every user.
ReplySpeakerAnyUser(p) ==
    /\ pc[p] = "reply_personas"
    /\ LET known == get_personas(loc[p].user_id)
           asked == {r \in personas : loc[p].persona_id # 0 /\ r.persona_id = loc[p].persona_id}
           named == {i \in DOMAIN known : known[i].name = DEFAULT_PERSONA.name}
           speaker == IF asked # {} THEN CHOOSE r \in asked : TRUE
                      ELSE IF named # {} THEN known[Ascending(named)[1]]
                      ELSE known[1]
       IN /\ Len(known) > 0
          /\ Goto(p, "reply_logs", [loc[p] EXCEPT !.speaker = speaker.persona_id])
    /\ UNCHANGED <<max_retries, post, ex, rep, store, done, started, devs>>

\* _get_response_to_interaction, lines 330-347: the speaking persona.  The user
\* has a persona here (the bootstrap of this call saw or made one).
ReplySpeaker(p) ==
    /\ pc[p] = "reply_personas"
    /\ LET known == get_personas(loc[p].user_id)
           asked == {i \in DOMAIN known : loc[p].persona_id # 0 /\ known[i].persona_id = loc[p].persona_id}
           named == {i \in DOMAIN known : known[i].name = DEFAULT_PERSONA.name}
           speaker == IF asked # {} THEN known[Ascending(asked)[1]]
                      ELSE IF named # {} THEN known[Ascending(named)[1]]
                      ELSE known[1]
       IN /\ Len(known) > 0
          /\ Goto(p, "reply_logs", [loc[p] EXCEPT !.speaker = speaker.persona_id])
    /\ UNCHANGED <<max_retries, post, ex, rep, store, done, started, devs>>

\* line 365: recent_logs = self.db.get_interaction_logs(user_id, limit=5)
ReplyLogs(p) ==
    /\ pc[p] = "reply_logs"
    /\ LET recent == get_interaction_logs(loc[p].user_id, 5)
       IN Goto(p, "reply_memories", [loc[p] EXCEPT !.recent_logs = [i \in DOMAIN recent |-> recent[i].log_id]])
    /\ UNCHANGED <<max_retries, post, ex, rep, store, done, started, devs>>

\* lines 361-394: the messages of the reply request.  A message is written by its
\* role, what it carries, and the rows (persona, memories, logs) or the call whose
\* text it is made of, in the order of its lines.
ReplyMessages(l, used_memories) ==
    <<[role |-> "system", part |-> "persona", ids |-> <<l.speaker>>]>>
    \o (IF Len(used_memories) > 0
        THEN <<[role |-> "system", part |-> "memories", ids |-> used_memories]>>
        ELSE << >>)
    \o (IF Len(l.recent_logs) > 0
        THEN <<[role |-> "assistant", part |-> "logs", ids |-> Reverse(l.recent_logs)]>>
        ELSE << >>)
    \o <<[role |-> "user", part |-> "text", ids |-> <<l.id>>]>>

\* The newest 3 memories whatever their importance
ReplyMemoriesAny(p) ==
    /\ pc[p] = "reply_memories"
    /\ LET mems == get_memory_events(loc[p].user_id, 20)
           order == Take(Ascending(DOMAIN mems), 3)
           used == [i \in DOMAIN order |-> mems[order[i]].memory_id]
       IN /\ Goto(p, "reply_chat", [loc[p] EXCEPT !.used_memories = used,
                                                  !.messages = ReplyMessages(loc[p], used)])
          /\ UNCHANGED done
    /\ UNCHANGED <<max_retries, post, ex, rep, store, started, devs>>

\* lines 373-374: the memories with importance_score >= 0.7 among the newest 20,
\* the first 3 of them.  A score that is no number cannot be compared.
ReplyMemories(p) ==
    /\ pc[p] = "reply_memories"
    /\ LET mems == get_memory_events(loc[p].user_id, 20)
           high == {i \in DOMAIN mems : mems[i].importance_score.t = "num" /\ mems[i].importance_score.v >= 7}
           order == Take(Ascending(high), 3)
           used == [i \in DOMAIN order |-> mems[order[i]].memory_id]
       IN IF \E i \in DOMAIN mems : mems[i].importance_score.t # "num"
          THEN Raise(p, "TypeError")
          ELSE /\ Goto(p, "reply_chat", [loc[p] EXCEPT !.used_memories = used,
                                                       !.messages = ReplyMessages(loc[p], used)])
               /\ UNCHANGED done
    /\ UNCHANGED <<max_retries, post, ex, rep, store, started, devs>>

\* A reply request that, when it fails, takes back the log, the analysis and the
\* memory of the call
ReplyChatRollback(p) ==
    /\ pc[p] = "reply_chat"
    /\ \E chat \in Chats(FreeText) :
          /\ devs + Dev(chat, FreeText) <= MaxDevs
          /\ devs' = devs + Dev(chat, FreeText)
          /\ IF chat.raised
             THEN /\ RaiseAt(p, "RuntimeError", Requested(loc[p], "reply"))
                  /\ logs' = {r \in logs : r.log_id # loc[p].log_id}
                  /\ analyses' = {r \in analyses : r.interaction_log_id # loc[p].log_id}
                  /\ memories' = {r \in memories : r.memory_id # loc[p].mem_id}
                  /\ UNCHANGED <<profiles, personas>>
             ELSE /\ Goto(p, IF Len(loc[p].recent_logs) > 0 THEN "save_reply" ELSE "increment",
                          [Requested(loc[p], "reply") EXCEPT !.reply = loc[p].id])
                  /\ UNCHANGED <<done, store>>
    /\ UNCHANGED <<max_retries, post, ex, rep, started>>

\* line 397: rsp = self.llm.chat(messages, ...), outside any try.  The reply text
\* of a call is written by the number of the call.
ReplyChat(p) ==
    /\ pc[p] = "reply_chat"
    /\ \E chat \in Chats(FreeText) :
          /\ devs + Dev(chat, FreeText) <= MaxDevs
          /\ devs' = devs + Dev(chat, FreeText)
          /\ IF chat.raised
             THEN RaiseAt(p, "RuntimeError", Requested(loc[p], "reply"))
             ELSE /\ Goto(p, IF Len(loc[p].recent_logs) > 0 THEN "save_reply" ELSE "increment",
                          [Requested(loc[p], "reply") EXCEPT !.reply = loc[p].id])
                  /\ UNCHANGED done
    /\ UNCHANGED <<max_retries, post, ex, rep, store, started>>

\* lines 402-404: save_assistant_reply(recent_logs[0]["log_id"], reply)
ReplySave(p) ==
    /\ pc[p] = "save_reply"
    /\ logs' = save_assistant_reply(loc[p].recent_logs[1], loc[p].reply)
    /\ Goto(p, "increment", loc[p])
    /\ UNCHANGED <<max_retries, post, ex, rep, profiles, analyses, personas, memories, done, started, devs>>

\* line 406: increment_persona_interaction(speaker["persona_id"])
ReplyIncrement(p) ==
    /\ pc[p] = "increment"
    /\ personas' = increment_persona_interaction(loc[p].speaker)
    /\ Goto(p, "return", loc[p])
    /\ UNCHANGED <<max_retries, post, ex, rep, profiles, logs, analyses, memories, done, started, devs>>

\* lines 184-193: the result goes to the caller
Return(p) ==
    /\ pc[p] = "return"
    /\ done' = done \cup {[loc[p] EXCEPT !.status = "returned"]}
    /\ pc' = [pc EXCEPT ![p] = "idle"]
    /\ loc' = [loc EXCEPT ![p] = IdleLoc]
    /\ UNCHANGED <<max_retries, post, ex, rep, store, started, devs>>

\* One step of the call of caller p.
Step(p) ==
    \/ GetProfile(p) \/ CreateProfile(p) \/ EnsureLookup(p) \/ EnsureCreate(p)
    \/ AnalyzeImage(p) \/ AnalyzeEmotion(p) \/ LogInteraction(p) \/ SaveAnalysis(p)
    \/ ExtractEntities(p) \/ AnalyzeStyle(p) \/ ExtractTemporal(p)
    \/ PersonaLookup(p) \/ PersonaInfer(p) \/ PersonaCreate(p) \/ UpdatePersonas(p)
    \/ MemoryTopic(p) \/ MemoryScore(p) \/ MemoryCreate(p)
    \/ ReplySpeaker(p) \/ ReplyLogs(p) \/ ReplyMemories(p) \/ ReplyChat(p)
    \/ ReplySave(p) \/ ReplyIncrement(p) \/ Return(p)

\* No _post call and no _ask_json call in progress.
PostIdle == [PostStart EXCEPT !.status = "idle"]
\* No call of the report generator in progress.
RepIdle == [op |-> "idle", stage |-> "idle"]
ExIdle == [stage |-> "idle", chat |-> [raised |-> FALSE, content |-> << >>], fallback |-> EmptyObj,
           out |-> [exc |-> "none", val |-> EmptyObj]]

\* The store as init_database leaves it, and every caller at rest.
InitPipeline ==
    /\ profiles = [u \in Users |-> [exists |-> FALSE, emotion_baseline |-> <<0, 0, 0>>,
                                    memory_tags |-> << >>, avatar_role |-> << >>, created_at |-> 0]]
    /\ logs = {} /\ analyses = {} /\ personas = {} /\ memories = {}
    /\ pc = [p \in Procs |-> "idle"]
    /\ loc = [p \in Procs |-> IdleLoc]
    /\ done = {}
    /\ started = 0

(***************************************************************************)
(* Spec: the callers' calls of one user overlap in any way.                *)
(***************************************************************************)
Png == [given |-> TRUE, format |-> "png", empty |-> FALSE]

\* Every request of these calls is answered in the plain way.
Init ==
    /\ max_retries = DefaultMaxRetries
    /\ post = PostIdle
    /\ ex = ExIdle
    /\ rep = RepIdle
    /\ InitPipeline
    /\ devs = MaxDevs

Next ==
    \/ Start(1, {"u1"}, {NoImage})
    \/ Start(2, {"u1"}, {Png})
    \/ \E p \in Procs : Step(p)

Spec == Init /\ [][Next]_vars

(***************************************************************************)
(* SpecSeq: one caller, whose calls (for any user) run one after another.  *)
(***************************************************************************)
InitSeq ==
    /\ max_retries = DefaultMaxRetries
    /\ post = PostIdle
    /\ ex = ExIdle
    /\ rep = RepIdle
    /\ InitPipeline
    /\ devs = 0

NextSeq == Start(1, Users, {NoImage}) \/ Step(1)

SpecSeq == InitSeq /\ [][NextSeq]_vars

\* The same, with the call under way running on: process_interaction is straight
\* code without a wait on anything but the requests, each of which ends
SpecSeqFair == SpecSeq /\ WF_vars(Step(1))

(***************************************************************************)
(* SpecReply: one caller, whose calls (for any user, each with an image)   *)
(* run one after another; every request is answered in the plain way, but  *)
(* the importance of a turn of u1 is scored high or low (of u2: high).     *)
(***************************************************************************)
MaxReplyCalls == 6

InitReply ==
    /\ max_retries = DefaultMaxRetries
    /\ post = PostIdle
    /\ ex = ExIdle
    /\ rep = RepIdle
    /\ InitPipeline
    /\ devs = MaxDevs

ScoredLow(p) == loc[p].user_id = "u1" /\ MemoryScoreLow(p)

NextReply == Begin(1, Users, {Png}, MaxReplyCalls) \/ Step(1) \/ ScoredLow(1)

SpecReply == InitReply /\ [][NextReply]_vars

(***************************************************************************)
(* SpecImage: one caller, whose calls for one user run one after another,  *)
(* each with no image or with an image file of any of the extensions,      *)
(* empty or not; every request is answered in the plain way.               *)
(***************************************************************************)
MaxImageCalls == 2

\* The extensions of the image files sent
Extensions == {"jpeg", "jpg", "jpe", "png", "bmp", "webp", "heic", "tiff", "tif", "gif"}

ImageFiles ==
    {NoImage}
    \cup {[given |-> TRUE, format |-> e, empty |-> FALSE] : e \in Extensions}
    \cup {[given |-> TRUE, format |-> e, empty |-> TRUE] : e \in {"png", "gif"}}

InitImage ==
    /\ max_retries = DefaultMaxRetries
    /\ post = PostIdle
    /\ ex = ExIdle
    /\ rep = RepIdle
    /\ InitPipeline
    /\ devs = MaxDevs

NextImage == Begin(1, {"u1"}, ImageFiles, MaxImageCalls) \/ Step(1)

SpecImage == InitImage /\ [][NextImage]_vars

(***************************************************************************)
(* SpecPost: one _post call of a requester constructed with any            *)
(* max_retries up to MaxRetriesBound, against an endpoint that answers     *)
(* each attempt as it likes.                                               *)
(***************************************************************************)
pipeline == <<profiles, logs, analyses, personas, memories, pc, loc, done, started, devs>>

\* What rsp.json() gives for an attempt that succeeds
PostBodies == {Prose, Obj(<< >>), Obj(<<Mem("topic", JStr("movie"))>>)}

\* What an attempt that fails got: nothing (no connection, a timeout), or an
\* answer with an error status or with a body that is no JSON
PostErrors == {<< >>, Prose}

\* chat or chat_with_image calls self._post(payload)
PostCall ==
    /\ post.status = "idle"
    /\ post' = PostStart
    /\ UNCHANGED <<max_retries, ex, rep, pipeline>>

\* One iteration of the loop of _post
PostAttempt ==
    /\ PostHasNext(post, max_retries)
    /\ \E ok \in BOOLEAN :
          \E body \in (IF ok THEN PostBodies ELSE PostErrors) :
             post' = PostIter(post, max_retries, ok, body)
    /\ UNCHANGED <<max_retries, ex, rep, pipeline>>

InitPost ==
    /\ max_retries \in 0..MaxRetriesBound
    /\ post = PostIdle
    /\ ex = ExIdle
    /\ rep = RepIdle
    /\ InitPipeline
    /\ devs = 0

NextPost == PostCall \/ PostAttempt

SpecPost == InitPost /\ [][NextPost]_vars

(***************************************************************************)
(* SpecExtract: one _ask_json call, for every outcome of llm.chat with a   *)
(* text of up to MaxLen tokens and for more than one fallback.             *)
(***************************************************************************)
MaxLen == 5

Tokens == {LB, RB, CM, PROSE, Mem("topic", JStr("movie")), Mem("score", JNum(9))}

Texts == UNION {[1..n -> Tokens] : n \in 0..MaxLen}

ExtractChats == {[raised |-> TRUE, content |-> << >>]} \cup {[raised |-> FALSE, content |-> txt] : txt \in Texts}

ExtractFallbacks == {EmptyObj, TopicFallback}

\* _ask_json(system, prompt, fallback) from its first line to its return
ExtractCall ==
    /\ ex.stage = "called"
    /\ ex' = [ex EXCEPT !.stage = "done", !.out = AskJson(ex.chat, ex.fallback)]
    /\ UNCHANGED <<max_retries, post, rep, pipeline>>

InitExtract ==
    /\ max_retries = DefaultMaxRetries
    /\ post = PostIdle
    /\ ex \in {[ExIdle EXCEPT !.stage = "called", !.chat = chat, !.fallback = fallback] :
                   chat \in ExtractChats, fallback \in ExtractFallbacks}
    /\ rep = RepIdle
    /\ InitPipeline
    /\ devs = 0

NextExtract == ExtractCall

SpecExtract == InitExtract /\ [][NextExtract]_vars

(***************************************************************************)
(* EmotionReportGenerator.  A timestamp (datetime.now().isoformat() when   *)
(* the row was written) is an instant, PerDay instants to a calendar day;  *)
(* the generator is called at the last instant of the day Today.  A ratio  *)
(* count / total is written as the pair <<count, total>>.                  *)
(***************************************************************************)
PerDay == 10
Today == 50
Now == Today * PerDay + (PerDay - 1)

\* datetime.fromisoformat(...).date()
DateOf(instant) == instant \div PerDay

\* cutoff_date = datetime.now() - timedelta(days=days)
Cutoff(days) == Now - days * PerDay

\* The keys of the three lists and counters
EmotionKeys == {JStr("positive"), JStr("negative"), JStr("neutral")}

\* The places of a list whose row has the memory_type, in the order of the list
OfType(rows, type) == SelectSeq([i \in DOMAIN rows |-> i], LAMBDA i : rows[i].memory_type = type)

\* classify_memories_by_emotion, lines 43-100.  classification[memory_type] of a
\* memory_type that is no key of the three lists raises KeyError, outside any
\* try.  The lists are written by the memory_ids they hold.  detailed_analysis
\* (_analyze_memory_patterns) works inside a try of its own and is not written.
classify_memories_by_emotion(user_id, time_range) ==
    LET all == get_memory_events(user_id, 1000)
        filtered == SelectSeq(all, LAMBDA m : m.created_at >= Cutoff(time_range))
        Ids(type) == [i \in DOMAIN OfType(filtered, type) |-> filtered[OfType(filtered, type)[i]].memory_id]
        total == Len(filtered)
        counts == [total_memories |-> total,
                   positive_count |-> Len(Ids(JStr("positive"))),
                   negative_count |-> Len(Ids(JStr("negative"))),
                   neutral_count |-> Len(Ids(JStr("neutral"))),
                   time_range_days |-> time_range]
        ratios == [positive_ratio |-> <<counts.positive_count, total>>,
                   negative_ratio |-> <<counts.negative_count, total>>,
                   neutral_ratio |-> <<counts.neutral_count, total>>]
    IN IF \E i \in DOMAIN filtered : filtered[i].memory_type \notin EmotionKeys
       THEN [exc |-> "KeyError"]
       ELSE [exc |-> "none",
             positive |-> Ids(JStr("positive")),
             negative |-> Ids(JStr("negative")),
             neutral |-> Ids(JStr("neutral")),
             statistics |-> IF total > 0 THEN counts @@ ratios ELSE counts]

\* A call of classify_memories_by_emotion
Classify ==
    /\ rep.op = "classify" /\ rep.stage = "called"
    /\ rep' = [rep EXCEPT !.stage = "done",
                          !.out = classify_memories_by_emotion(rep.user_id, rep.time_range)]
    /\ UNCHANGED <<max_retries, post, ex, pipeline>>

(***************************************************************************)
(* SpecClassify: classify_memories_by_emotion is called for a user whose   *)
(* memories were written, with any memory_type, on days inside and outside *)
(* the window.                                                             *)
(***************************************************************************)
MaxMemories == 3

\* The days the rows were written on
RowDays == {Today, Today - 10, Today - 40}

\* The memory_type of the rows: create_memory_event stores the label it is given
RowTypes == {"positive", "negative", "neutral", "excited"}

\* The row create_memory_event wrote: the i-th row, written on the day
MemoryRow(user_id, i, day, type, score, persons) ==
    [memory_id |-> i, user_id |-> user_id, interaction_log_id |-> i,
     media_reference |-> JStr(""), emotion_annotation |-> EmptyObj,
     linked_topic |-> JStr("movie"), memory_type |-> JStr(type),
     importance_score |-> JNum(score), created_at |-> day * PerDay + i,
     tags |-> JList(<< >>), entities |-> JObj([persons |-> JList(persons)])]

InitClassify ==
    /\ max_retries = DefaultMaxRetries
    /\ post = PostIdle
    /\ ex = ExIdle
    /\ profiles = [u \in Users |-> [exists |-> FALSE, emotion_baseline |-> <<0, 0, 0>>,
                                    memory_tags |-> << >>, avatar_role |-> << >>, created_at |-> 0]]
    /\ logs = {} /\ analyses = {} /\ personas = {}
    /\ \E n \in 0..MaxMemories : \E days \in [1..n -> RowDays], types \in [1..n -> RowTypes] :
          memories = {MemoryRow("u1", i, days[i], types[i], 5, << >>) : i \in 1..n}
    /\ pc = [p \in Procs |-> "idle"]
    /\ loc = [p \in Procs |-> IdleLoc]
    /\ done = {} /\ started = 0 /\ devs = 0
    /\ rep \in {[op |-> "classify", stage |-> "called", user_id |-> "u1", time_range |-> t, out |-> << >>] :
                    t \in {7, 30}}

NextClassify == Classify

SpecClassify == InitClassify /\ [][NextClassify]_vars

(***************************************************************************)
(* _calculate_emotion_trend.  A trajectory maps a date to the ratios of    *)
(* the date; a slope is written as the pair <<numerator, denominator>>     *)
(* with a positive denominator.                                            *)
(***************************************************************************)
Abs(n) == IF n < 0 THEN -n ELSE n

RECURSIVE GCD(_, _)
GCD(a, b) == IF b = 0 THEN a ELSE GCD(b, a % b)

\* The least common denominator of a list of ratios
RECURSIVE CommonDenominator(_)
CommonDenominator(ratios) ==
    IF Len(ratios) = 0 THEN 1
    ELSE LET rest == CommonDenominator(Tail(ratios))
             q == Head(ratios)[2]
         IN (q * rest) \div GCD(q, rest)

RECURSIVE Sum(_)
Sum(seq) == IF Len(seq) = 0 THEN 0 ELSE Head(seq) + Sum(Tail(seq))

\* np.polyfit(range(len(values)), values, 1)[0]: the slope of the least-squares
\* line through the points (0, values[1]), (1, values[2]), ...
Polyfit(values) ==
    LET n == Len(values)
        L == CommonDenominator(values)
        y == [i \in 1..n |-> values[i][1] * (L \div values[i][2])]
        x == [i \in 1..n |-> i - 1]
        xy == [i \in 1..n |-> x[i] * y[i]]
        xx == [i \in 1..n |-> x[i] * x[i]]
    IN <<n * Sum(xy) - Sum(x) * Sum(y), (n * Sum(xx) - Sum(x) * Sum(x)) * L>>

\* A label that is 'stable' whatever the slope
TrendLabelsFlat(slope) == {"stable"}

\* line 743: 'improving' if positive_trend > 0.01 else 'declining' if
\* positive_trend < -0.01 else 'stable'.  The slope is a float: where the exact
\* slope is 0.01 or -0.01 the rounding of polyfit decides the side.
TrendLabels(slope) ==
    IF 100 * slope[1] > slope[2] THEN {"improving"}
    ELSE IF 100 * slope[1] = slope[2] THEN {"improving", "stable"}
    ELSE IF 100 * slope[1] < -slope[2] THEN {"declining"}
    ELSE IF 100 * slope[1] = -slope[2] THEN {"declining", "stable"}
    ELSE {"stable"}

\* _calculate_emotion_trend, lines 723-745: what it can return for a trajectory
calculate_emotion_trend(trajectory) ==
    LET dates == Ascending(DOMAIN trajectory)
        positive_trend == Polyfit([i \in DOMAIN dates |-> trajectory[dates[i]].positive_ratio])
        negative_trend == Polyfit([i \in DOMAIN dates |-> trajectory[dates[i]].negative_ratio])
    IN IF DOMAIN trajectory = {} THEN {[trend |-> "no_data"]}
       ELSE IF Len(dates) < 2 THEN {[trend |-> "insufficient_data"]}
       ELSE {[positive_trend |-> positive_trend,
              negative_trend |-> negative_trend,
              overall_trend |-> label,
              trend_strength |-> <<Abs(positive_trend[1]), positive_trend[2]>>] :
                 label \in TrendLabels(positive_trend)}

\* A call of _calculate_emotion_trend
CalculateTrend ==
    /\ rep.op = "trend" /\ rep.stage = "called"
    /\ \E out \in calculate_emotion_trend(rep.trajectory) :
          rep' = [rep EXCEPT !.stage = "done", !.out = out]
    /\ UNCHANGED <<max_retries, post, ex, pipeline>>

(***************************************************************************)
(* SpecTrend: _calculate_emotion_trend is called with the trajectory of up *)
(* to MaxDates dates.                                                      *)
(***************************************************************************)
MaxDates == 3

\* The positive count and the number of the logs of a date
DayCounts == {<<0, 1>>, <<1, 200>>, <<2, 200>>, <<1, 2>>, <<101, 200>>, <<1, 1>>}

\* lines 278-283: the entry of a date with no negative log
DayEntry(counts) ==
    [positive_ratio |-> counts,
     negative_ratio |-> <<0, counts[2]>>,
     neutral_ratio |-> <<counts[2] - counts[1], counts[2]>>,
     total_interactions |-> counts[2]]

InitTrend ==
    /\ max_retries = DefaultMaxRetries
    /\ post = PostIdle
    /\ ex = ExIdle
    /\ InitPipeline
    /\ devs = 0
    /\ \E n \in 0..MaxDates : \E counts \in [(Today - n + 1)..Today -> DayCounts] :
          rep = [op |-> "trend", stage |-> "called",
                 trajectory |-> [d \in DOMAIN counts |-> DayEntry(counts[d])], out |-> << >>]

NextTrend == CalculateTrend

SpecTrend == InitTrend /\ [][NextTrend]_vars

(***************************************************************************)
(* _generate_period_report and the analyses it is made of.  The charts of  *)
(* _generate_visualizations are drawn inside a try and are not written.    *)
(***************************************************************************)
\* The persons of a memory, one entry per place of its persons list, with the
\* memory_type of the memory: memory.get('entities', {}).get('persons', [])
RECURSIVE Mentions(_)
Mentions(rows) ==
    IF Len(rows) = 0 THEN << >>
    ELSE LET m == Head(rows)
             persons == Get(m.entities.v, "persons", JList(<< >>)).v
         IN [i \in DOMAIN persons |-> [person |-> persons[i], memory_type |-> m.memory_type]]
            \o Mentions(Tail(rows))

\* max(counts, key=counts.get) for the keys in the order they were inserted: the
\* first key with the greatest count
FirstMax(keys, counts) ==
    keys[CHOOSE i \in DOMAIN keys :
            /\ \A j \in DOMAIN keys : counts[keys[j]] <= counts[keys[i]]
            /\ \A j \in 1..(i - 1) : counts[keys[j]] < counts[keys[i]]]

\* The distinct elements of a list in the order of their first places
RECURSIVE Distinct(_)
Distinct(seq) ==
    IF Len(seq) = 0 THEN << >>
    ELSE LET front == Distinct(SubSeq(seq, 1, Len(seq) - 1))
             last == seq[Len(seq)]
         IN IF \E i \in DOMAIN front : front[i] = last THEN front ELSE Append(front, last)

\* _generate_summary, lines 184-245.  emotion_counts[memory_type] of a
\* memory_type that is none of the three keys raises KeyError.
generate_summary(mems, interactions, known) ==
    LET dates == {DateOf(interactions[i].timestamp) : i \in DOMAIN interactions}
        active_days == Cardinality(dates)
        avg == IF active_days > 0 THEN <<Len(interactions), active_days>> ELSE <<0, 1>>
        OfKey(key) == Len(SelectSeq(mems, LAMBDA m : m.memory_type = key))
        dominant == FirstMax(<<JStr("positive"), JStr("negative"), JStr("neutral")>>,
                             [key \in EmotionKeys |-> OfKey(key)])
        mentions == Mentions(mems)
        mentioned == Distinct([i \in DOMAIN mentions |-> mentions[i].person])
        persona_mentions ==
            [person \in {mentions[i].person : i \in DOMAIN mentions} |->
                Len(SelectSeq(mentions, LAMBDA e : e.person = person))]
    IN IF \E i \in DOMAIN mems : mems[i].memory_type \notin EmotionKeys
       THEN [exc |-> "KeyError"]
       ELSE [exc |-> "none",
             total_memories |-> Len(mems),
             total_interactions |-> Len(interactions),
             total_personas |-> Len(known),
             active_days |-> active_days,
             avg_daily_interactions |-> avg,
             dominant_emotion |-> dominant,
             most_active_persona |-> IF Len(mentioned) > 0 THEN FirstMax(mentioned, persona_mentions) ELSE JNull,
             key_insights |->
                 (IF dominant = JStr("positive") THEN <<"positive">>
                  ELSE IF dominant = JStr("negative") THEN <<"negative">> ELSE << >>)
                 \o (IF avg[1] > 5 * avg[2] THEN <<"active">>
                     ELSE IF avg[1] < 2 * avg[2] THEN <<"quiet">> ELSE << >>)]

\* A strength that leaves the positive mentions out
StrengthOfFrequency(freq, positive, total) == <<freq * total, total>>

\* lines 362-363: strength = freq * (1 + positive / total_emotions), written as
\* the ratio <<freq * (total + positive), total>>
Strength(freq, positive, total) == <<freq * (total + positive), total>>

\* _analyze_persona_interactions, lines 333-367
analyze_persona_interactions(mems, known) ==
    LET mentions == Mentions(mems)
        mentioned == {mentions[i].person : i \in DOMAIN mentions}
        Freq(person) == Len(SelectSeq(mentions, LAMBDA e : e.person = person))
        Assoc(person, key) == Len(SelectSeq(mentions, LAMBDA e : e.person = person /\ e.memory_type = key))
        Total(person) == Assoc(person, JStr("positive")) + Assoc(person, JStr("negative"))
                         + Assoc(person, JStr("neutral"))
    IN IF \E i \in DOMAIN mentions : mentions[i].memory_type \notin EmotionKeys
       THEN [exc |-> "KeyError"]
       ELSE [exc |-> "none",
             frequency |-> [person \in mentioned |-> Freq(person)],
             emotion_association |->
                 [person \in mentioned |->
                     [positive |-> Assoc(person, JStr("positive")),
                      negative |-> Assoc(person, JStr("negative")),
                      neutral |-> Assoc(person, JStr("neutral"))]],
             relationship_strength |->
                 [person \in {o \in mentioned : Total(o) > 0} |->
                     Strength(Freq(person), Assoc(person, JStr("positive")), Total(person))]]

\* A mapping that also counts the label positive as positive
PositiveLabelsCoarse ==
    {JStr("happy"), JStr("excited"), JStr("content"), JStr("relaxed"), JStr("positive")}

\* lines 268-271: the labels counted as positive and as negative; any other
\* label is counted as neutral
PositiveLabels == {JStr("happy"), JStr("excited"), JStr("content"), JStr("relaxed")}
NegativeLabels == {JStr("sad"), JStr("angry"), JStr("anxious")}

\* A grouping by the instant of the log instead of its date
InteractionInstant(interaction) == interaction.timestamp

\* line 256: the date a log is grouped under
InteractionDate(interaction) == DateOf(interaction.timestamp)

\* _analyze_emotion_trajectory, lines 247-289: what it can return
analyze_emotion_trajectory(interactions) ==
    LET dates == {InteractionDate(interactions[i]) : i \in DOMAIN interactions}
        On(d) == SelectSeq(interactions, LAMBDA r : InteractionDate(r) = d)
        Entry(d) ==
            LET total == Len(On(d))
                positive == Len(SelectSeq(On(d), LAMBDA r : r.emotion_label \in PositiveLabels))
                negative == Len(SelectSeq(On(d), LAMBDA r : r.emotion_label \in NegativeLabels))
            IN [positive_ratio |-> <<positive, total>>,
                negative_ratio |-> <<negative, total>>,
                neutral_ratio |-> <<total - positive - negative, total>>,
                total_interactions |-> total]
        trajectory == [d \in dates |-> Entry(d)]
    IN IF Len(interactions) = 0 THEN {[trend |-> "no_data"]}
       ELSE {[daily_trajectory |-> trajectory, trend_analysis |-> t] :
                t \in calculate_emotion_trend(trajectory)}

\* The n-th selection of sorted(items, key=count, reverse=True): the sort is
\* stable, so it is the first of the greatest among the keys not yet taken
RECURSIVE SortedByCount(_, _)
SortedByCount(keys, counts) ==
    IF Len(keys) = 0 THEN << >>
    ELSE LET top == FirstMax(keys, counts)
         IN <<top>> \o SortedByCount(SelectSeq(keys, LAMBDA k : k # top), counts)

\* _identify_memory_patterns, lines 747-772
identify_memory_patterns(by_type, tags, by_tags) ==
    LET total == by_type.positive + by_type.negative + by_type.neutral
        emotion == IF 10 * by_type.positive > 6 * total THEN "predominantly_positive"
                   ELSE IF 10 * by_type.negative > 4 * total THEN "concerning_negative"
                   ELSE "balanced"
        themes == Take(SortedByCount(tags, by_tags), 3)
    IN (IF total > 0 THEN [emotion_pattern |-> emotion] ELSE EmptyObj)
       @@ (IF Len(tags) > 0 THEN [top_themes |-> themes] ELSE EmptyObj)

\* The tags of a list of memories, one entry per place of a tags list
RECURSIVE TagsOf(_)
TagsOf(rows) == IF Len(rows) = 0 THEN << >> ELSE Head(rows).tags.v \o TagsOf(Tail(rows))

\* _analyze_memory_distribution, lines 291-331.  The week of a date is written
\* by the number of its week; importance >= 0.7 of a score that is no number
\* raises TypeError.
analyze_memory_distribution(mems) ==
    LET OfKey(key) == Len(SelectSeq(mems, LAMBDA m : m.memory_type = key))
        by_type == [positive |-> OfKey(JStr("positive")), negative |-> OfKey(JStr("negative")),
                    neutral |-> OfKey(JStr("neutral"))]
        all_tags == TagsOf(mems)
        tags == Distinct(all_tags)
        TagCount(tag) == Len(SelectSeq(all_tags, LAMBDA t : t = tag))
        by_tags == [tag \in {tags[i] : i \in DOMAIN tags} |-> TagCount(tag)]
        weeks == {DateOf(mems[i].created_at) \div 7 : i \in DOMAIN mems}
    IN IF \E i \in DOMAIN mems : mems[i].memory_type \notin EmotionKeys
       THEN [exc |-> "KeyError"]
       ELSE IF \E i \in DOMAIN mems : mems[i].importance_score.t # "num"
       THEN [exc |-> "TypeError"]
       ELSE [exc |-> "none",
             by_type |-> by_type,
             by_importance |->
                 [high |-> Len(SelectSeq(mems, LAMBDA m : m.importance_score.v >= 7)),
                  medium |-> Len(SelectSeq(mems, LAMBDA m : m.importance_score.v < 7 /\ m.importance_score.v >= 4)),
                  low |-> Len(SelectSeq(mems, LAMBDA m : m.importance_score.v < 4))],
             by_tags |-> by_tags,
             by_week |-> [w \in weeks |-> Len(SelectSeq(mems, LAMBDA m : DateOf(m.created_at) \div 7 = w))],
             patterns |-> identify_memory_patterns(by_type, tags, by_tags)]

\* np.std(values) for values in tenths: the square root of the ratio
\* <<sum of (n * v - sum)^2, 100 * n^3>>, which is written by that ratio
Std(values) ==
    LET n == Len(values)
        total == Sum(values)
    IN <<Sum([i \in 1..n |-> (n * values[i] - total) * (n * values[i] - total)]), 100 * n * n * n>>

\* A stability that is 1 minus the mean of the values
PadStabilityOfMean(values) == [one_minus |-> "mean", of |-> <<Sum(values), 10 * Len(values)>>]

\* _calculate_pad_stability, lines 786-788, for one dimension: 1.0 - np.std(values),
\* written by the ratio whose root is taken
PadStability(values) == [one_minus |-> "root", of |-> Std(values)]

\* _calculate_dimension_trend, lines 774-778
calculate_dimension_trend(values) ==
    IF Len(values) < 2 THEN <<0, 1>>
    ELSE Polyfit([i \in DOMAIN values |-> <<values[i], 10>>])

\* _analyze_pad_trends, lines 369-410.  A log whose detected_emotion is empty or
\* no dict is left out; a value that is no number makes numpy raise TypeError.
analyze_pad_trends(interactions) ==
    LET kept == SelectSeq(interactions, LAMBDA r : r.detected_emotion.t = "obj" /\ Truthy(r.detected_emotion))
        Dim(r, dimension) == Get(r.detected_emotion.v, dimension, JNum(5))
        Dimensions == {"pleasure", "arousal", "dominance"}
        Values(dimension) == [i \in DOMAIN kept |-> Dim(kept[i], dimension).v]
    IN IF Len(kept) = 0 THEN [exc |-> "none", trend |-> "no_data"]
       ELSE IF \E i \in DOMAIN kept : \E dimension \in Dimensions : Dim(kept[i], dimension).t # "num"
       THEN [exc |-> "TypeError"]
       ELSE [exc |-> "none",
             trends |-> [dimension \in Dimensions |-> calculate_dimension_trend(Values(dimension))],
             averages |-> [dimension \in Dimensions |-> <<Sum(Values(dimension)), 10 * Len(kept)>>],
             data_points |-> Len(kept),
             stability |-> [dimension \in Dimensions |-> PadStability(Values(dimension))]]

\* _generate_period_report, lines 126-170: what it can return.  The analyses run
\* in the order of the lines, and the first exception ends the call.
generate_period_report(user_id, days, period_type) ==
    LET mems == SelectSeq(get_memory_events(user_id, 1000), LAMBDA m : m.created_at >= Cutoff(days))
        interactions == SelectSeq(get_interaction_logs(user_id, 1000), LAMBDA r : r.timestamp >= Cutoff(days))
        known == get_personas(user_id)
        summary == generate_summary(mems, interactions, known)
        distribution == analyze_memory_distribution(mems)
        persona_interactions == analyze_persona_interactions(mems, known)
        pad_trends == analyze_pad_trends(interactions)
    IN IF summary.exc # "none" THEN {[exc |-> summary.exc]}
       ELSE IF distribution.exc # "none" THEN {[exc |-> distribution.exc]}
       ELSE IF persona_interactions.exc # "none" THEN {[exc |-> persona_interactions.exc]}
       ELSE IF pad_trends.exc # "none" THEN {[exc |-> pad_trends.exc]}
       ELSE {[exc |-> "none",
              user_id |-> user_id, period_type |-> period_type, period_days |-> days,
              summary |-> summary,
              emotion_trajectory |-> trajectory,
              memory_distribution |-> distribution,
              persona_interactions |-> persona_interactions,
              pad_trends |-> pad_trends] :
                 trajectory \in analyze_emotion_trajectory(interactions)}

\* generate_weekly_report, line 112
WeeklyReport ==
    /\ rep.op = "weekly" /\ rep.stage = "called"
    /\ \E out \in generate_period_report(rep.user_id, 7, "weekly") :
          rep' = [rep EXCEPT !.stage = "done", !.out = out]
    /\ UNCHANGED <<max_retries, post, ex, pipeline>>

\* generate_monthly_report, line 124
MonthlyReport ==
    /\ rep.op = "monthly" /\ rep.stage = "called"
    /\ \E out \in generate_period_report(rep.user_id, 30, "monthly") :
          rep' = [rep EXCEPT !.stage = "done", !.out = out]
    /\ UNCHANGED <<max_retries, post, ex, pipeline>>

(***************************************************************************)
(* SpecPersons: a weekly or a monthly report is generated for a user whose *)
(* memories mention persons.  The memories were written with any           *)
(* memory_type; the oldest of them may lie outside the week.               *)
(***************************************************************************)
MaxMentioning == 4

PersonLists == {<< >>, <<JStr("Alice")>>, <<JStr("Alice"), JStr("Bob")>>}

\* A log of the interaction of an instant, with the PAD values in tenths
LogRow(user_id, i, instant, label, pad) ==
    [log_id |-> i, user_id |-> user_id, timestamp |-> instant,
     detected_emotion |-> JObj(pad), emotion_label |-> JStr(label),
     raw_image |-> Png, processing_metadata |-> EmptyObj]

ReportCalls ==
    {[op |-> op, stage |-> "called", user_id |-> "u1", out |-> << >>] : op \in {"weekly", "monthly"}}

InitPersons ==
    /\ max_retries = DefaultMaxRetries
    /\ post = PostIdle
    /\ ex = ExIdle
    /\ profiles = [u \in Users |-> [exists |-> FALSE, emotion_baseline |-> <<0, 0, 0>>,
                                    memory_tags |-> << >>, avatar_role |-> << >>, created_at |-> 0]]
    /\ analyses = {} /\ personas = {}
    /\ logs = {LogRow("u1", 1, Today * PerDay + 1, "happy",
                      [pleasure |-> JNum(8), arousal |-> JNum(6), dominance |-> JNum(5)])}
    /\ \E n \in 0..MaxMentioning :
          \E first \in {Today, Today - 10}, types \in [1..n -> RowTypes], persons \in [1..n -> PersonLists] :
             memories = {MemoryRow("u1", i, IF i = 1 THEN first ELSE Today, types[i], 5, persons[i]) :
                            i \in 1..n}
    /\ pc = [p \in Procs |-> "idle"]
    /\ loc = [p \in Procs |-> IdleLoc]
    /\ done = {} /\ started = 0 /\ devs = 0
    /\ rep \in ReportCalls

NextReport == WeeklyReport \/ MonthlyReport

SpecPersons == InitPersons /\ [][NextReport]_vars

(***************************************************************************)
(* SpecMoods: a weekly or a monthly report is generated for a user with up *)
(* to MaxLogs interaction logs, written in the order of their ids on days  *)
(* inside and outside the week, with the labels and the PAD values the     *)
(* emotion analysis gave.                                                  *)
(***************************************************************************)
MaxLogs == 3

LogDays == {Today - 10, Today - 1, Today}

\* What the emotion analysis of a log gave: the label and the PAD values, of
\* which some or all may be missing
Moods ==
    {[label |-> "happy", pad |-> [pleasure |-> JNum(8), arousal |-> JNum(6), dominance |-> JNum(5)]],
     [label |-> "sad", pad |-> [pleasure |-> JNum(2), arousal |-> JNum(6), dominance |-> JNum(3)]],
     [label |-> "positive", pad |-> [pleasure |-> JNum(9), arousal |-> JNum(6), dominance |-> JNum(5)]],
     [label |-> "happy", pad |-> [pleasure |-> JNum(8)]],
     [label |-> "negative", pad |-> EmptyObj]}

InitMoods ==
    /\ max_retries = DefaultMaxRetries
    /\ post = PostIdle
    /\ ex = ExIdle
    /\ profiles = [u \in Users |-> [exists |-> FALSE, emotion_baseline |-> <<0, 0, 0>>,
                                    memory_tags |-> << >>, avatar_role |-> << >>, created_at |-> 0]]
    /\ analyses = {} /\ personas = {}
    /\ memories = {MemoryRow("u1", 1, Today, "positive", 5, <<JStr("Alice")>>)}
    /\ \E n \in 0..MaxLogs :
          \E days \in {d \in [1..n -> LogDays] : \A i \in 1..(n - 1) : d[i] <= d[i + 1]},
             moods \in [1..n -> Moods] :
             logs = {LogRow("u1", i, days[i] * PerDay + i, moods[i].label, moods[i].pad) : i \in 1..n}
    /\ pc = [p \in Procs |-> "idle"]
    /\ loc = [p \in Procs |-> IdleLoc]
    /\ done = {} /\ started = 0 /\ devs = 0
    /\ rep \in ReportCalls

SpecMoods == InitMoods /\ [][NextReport]_vars

(***************************************************************************)
(* Properties.                                                             *)
(***************************************************************************)
\* The calls begun so far: the finished ones and those under way
Calls == done \cup {loc[p] : p \in {q \in Procs : pc[q] # "idle"}}

Returned == {d \in done : d.status = "returned"}

\* C1: a call in which a request of any stage failed at transport, its retries
\* used up, raises to its caller instead of returning a result.
C1_TransportFailureRaises == \A d \in done : d.tfail => d.status = "raised"

\* C2: a call raises only for a transport failure or an image it cannot send,
\* never because of the shape of a response that arrived (unparseable text, a
\* JSON object without the expected field).
C2_ShapeNeverRaises == \A d \in done : d.status = "raised" => d.exc \in {"RuntimeError", "ValueError"}

\* C3: _ask_json never raises; it returns the object parsed from the first
\* opening brace to the last closing brace of the text, or, when there is no
\* such part or it does not parse, the fallback it was given, unchanged.
C3_AskJsonTotal ==
    ex.stage = "done" =>
        LET txt == ex.chat.content
            opens == {i \in 1..Len(txt) : txt[i].t = "lb"}
            closes == {i \in 1..Len(txt) : txt[i].t = "rb"}
            first == CHOOSE i \in opens : \A j \in opens : i <= j
            last == CHOOSE i \in closes : \A j \in closes : j <= i
            found == /\ ~ex.chat.raised
                     /\ opens # {} /\ closes # {}
                     /\ first < last
                     /\ JsonLoads(SubSeq(txt, first, last)).ok
        IN /\ ex.out.exc = "none"
           /\ ex.out.val = IF found THEN JsonLoads(SubSeq(txt, first, last)).val ELSE ex.fallback

\* An object between two runs of prose was parsed out of the text
C3_Witness ==
    /\ ex.stage = "done" /\ ~ex.chat.raised
    /\ Len(ex.chat.content) = 5
    /\ ex.chat.content[1].t = "prose" /\ ex.chat.content[5].t = "prose"
    /\ ex.out.val # ex.fallback

\* C4: _post makes at most max_retries + 1 attempts; the first attempt that
\* succeeds is the last one made and its response is what _post returns; _post
\* raises exactly when max_retries + 1 attempts have been made and all failed.
C4_PostAttempts ==
    LET n == Len(post.log)
    IN post.status # "idle" =>
          /\ n <= max_retries + 1
          /\ \A i \in 1..n : post.log[i].ok =>
                 i = n /\ post.status = "returned" /\ post.data = post.log[i].body
          /\ post.status = "returned" => n >= 1 /\ post.log[n].ok
          /\ post.status = "raised" <=> (n = max_retries + 1 /\ \A i \in 1..n : ~post.log[i].ok)

\* With the default of 2 extra attempts, the third attempt succeeded
C4_Witness ==
    /\ max_retries = DefaultMaxRetries
    /\ post.status = "returned"
    /\ Len(post.log) = max_retries + 1

\* C5: with the calls run one after another, every InteractionLog has exactly
\* one EmotionAnalysis once the calls made so far are over.
C5_OneAnalysisPerLog ==
    pc[1] = "idle" =>
        \A l \in logs : Cardinality({a \in analyses : a.interaction_log_id = l.log_id}) = 1

C7_DuplicateDefaultByOverlap ==
    \A a, b \in personas :
        (/\ a.user_id = b.user_id
         /\ a.name = DEFAULT_PERSONA.name /\ b.name = DEFAULT_PERSONA.name
         /\ a.persona_id < b.persona_id)
        => \E ca, cb \in Calls :
              /\ ca.id # cb.id
              /\ ca.default_created = a.persona_id
              /\ cb.default_created = b.persona_id
              /\ cb.ensure_seen < a.persona_id

\* One user owns two personas with the default name
C7_Witness ==
    \E a, b \in personas :
        /\ a # b /\ a.user_id = b.user_id
        /\ a.name = DEFAULT_PERSONA.name /\ b.name = DEFAULT_PERSONA.name

\* C8: the MemoryEvent of a call that returned, read back with
\* get_memory_events, has the entities the call extracted in its entities
\* field, and a list in its tags field.
C8_MemoryCarriesEntities ==
    \A d \in Returned :
        LET mems == get_memory_events(d.user_id, 20)
        IN \A i \in DOMAIN mems :
              mems[i].memory_id = d.mem_id =>
                  mems[i].entities = JObj(d.entities) /\ mems[i].tags.t = "list"

\* C9: with the calls run one after another, every call that returned created
\* exactly one MemoryEvent, which references the user of the call and the
\* InteractionLog the call created; and between calls the interaction and
\* memory counts of get_statistics are the numbers of the user's calls that
\* persisted their log and their memory, so that a call that returns adds
\* exactly 1 to each.
C9_OneMemoryPerCall ==
    /\ \A d \in Returned :
          /\ \E l \in logs : l.log_id = d.log_id /\ l.user_id = d.user_id
          /\ \E m \in memories :
                /\ m.memory_id = d.mem_id /\ m.user_id = d.user_id
                /\ {o \in memories : o.interaction_log_id = d.log_id} = {m}
          /\ \A e \in done : e.id # d.id => e.log_id # d.log_id /\ e.mem_id # d.mem_id
    /\ pc[1] = "idle" =>
          \A u \in Users :
             /\ get_statistics(u).interaction_count = Cardinality({d \in done : d.user_id = u /\ d.log_id # 0})
             /\ get_statistics(u).memory_count = Cardinality({d \in done : d.user_id = u /\ d.mem_id # 0})
             /\ \A d \in Returned : d.log_id # 0 /\ d.mem_id # 0

\* Two calls of one user have returned
C9_Witness ==
    \E d, e \in Returned : d.id # e.id /\ d.user_id = e.user_id

\* The three labels of the enum
Labels == {JStr("positive"), JStr("negative"), JStr("neutral")}

\* C11: the emotion_label of every InteractionLog and the memory_type of every
\* MemoryEvent is one of positive, negative, neutral.
C11_LabelsInEnum ==
    /\ \A l \in logs : l.emotion_label \in Labels
    /\ \A m \in memories : m.memory_type \in Labels

\* A PAD map whose pleasure, arousal and dominance, where given, lie in [0,1]
PadInRange(pad) ==
    pad.t = "obj" /\ \A k \in DOMAIN pad.v \cap {"pleasure", "arousal", "dominance"} :
                        pad.v[k].t = "num" /\ pad.v[k].v >= 0 /\ pad.v[k].v <= 10

\* C12: the importance_score of every MemoryEvent and the pleasure, arousal
\* and dominance of every InteractionLog and EmotionAnalysis lie in [0,1].
C12_ValuesInUnitRange ==
    /\ \A m \in memories : m.importance_score.t = "num" /\ m.importance_score.v >= 0 /\ m.importance_score.v <= 10
    /\ \A l \in logs : PadInRange(l.detected_emotion)
    /\ \A a \in analyses : PadInRange(a.pad_values)

\* The user owns a persona with the default name
HasDefault(user_id) ==
    \E r \in personas : r.user_id = user_id /\ r.name = DEFAULT_PERSONA.name

\* Where a call stands when its next step writes a log, an analysis, a persona
\* other than the default one, a memory, a reply or a counter
WritingStages == {"log", "save_analysis", "cp_create", "create_memory", "save_reply", "increment"}

\* C13: the default persona of the user exists whenever a call is about to
\* write an InteractionLog, an EmotionAnalysis, another Persona or a
\* MemoryEvent, so every such row belongs to a user who has a default persona.
C13_DefaultPersonaFirst ==
    /\ \A p \in Procs : pc[p] \in WritingStages => HasDefault(loc[p].user_id)
    /\ \A l \in logs : HasDefault(l.user_id)
    /\ \A a \in analyses : \E l \in logs : l.log_id = a.interaction_log_id /\ HasDefault(l.user_id)
    /\ \A m \in memories : HasDefault(m.user_id)
    /\ \A r \in personas : HasDefault(r.user_id)

\* A user has a log with its analysis, a memory and a persona other than the
\* default one
C13_Witness ==
    \E l \in logs, a \in analyses, m \in memories, r \in personas :
        /\ a.interaction_log_id = l.log_id
        /\ m.user_id = l.user_id /\ r.user_id = l.user_id
        /\ r.name # DEFAULT_PERSONA.name

\* The stage of the pipeline a call stands in, by the number of the stage in
\* the order bootstrap, image caption, emotion request, persistence of log and
\* analysis, entity request, style request, temporal request, persona
\* creation, memory creation, reply synthesis
StageOf(at) ==
    CASE at \in {"get_profile", "create_profile", "ensure_lookup", "ensure_create"} -> 1
      [] at = "image" -> 2
      [] at = "emotion" -> 3
      [] at \in {"log", "save_analysis"} -> 4
      [] at = "entities" -> 5
      [] at = "style" -> 6
      [] at = "temporal" -> 7
      [] at \in {"cp_lookup", "cp_infer", "cp_create", "update_personas"} -> 8
      [] at \in {"topic", "score", "create_memory"} -> 9
      [] at \in {"reply_personas", "reply_logs", "reply_memories", "reply_chat", "save_reply", "increment"} -> 10
      [] at = "return" -> 11

\* What a call under way has done agrees with the stage it stands in
StageHolds(p) ==
    LET l == loc[p]
        k == StageOf(pc[p])
    IN /\ k <= 3 => l.pad = EmptyObj
       /\ (k <= 3 \/ pc[p] = "log") => l.log_id = 0
       /\ k >= 5 => /\ \E r \in logs : r.log_id = l.log_id /\ r.user_id = l.user_id
                     /\ \E a \in analyses : a.interaction_log_id = l.log_id
       /\ k <= 5 => l.entities = EmptyObj
       /\ k <= 6 => l.style = EmptyObj
       /\ k <= 7 => l.new_ps = << >> /\ l.upd_ps = << >>
       /\ k <= 8 => l.topic = JNull /\ l.score = JNull
       /\ k <= 9 => l.mem_id = 0
       /\ k >= 10 => \E m \in memories : m.memory_id = l.mem_id /\ m.interaction_log_id = l.log_id
       /\ k <= 9 => l.speaker = 0 /\ l.reply = 0
       /\ k = 11 => l.reply # 0

\* C14: a call goes through the stages in their fixed order, never back; the
\* log and its analysis are persisted before the entity request is issued, and
\* nothing of a later stage is done while the call stands in an earlier one.
C14_StagesInOrder ==
    /\ [](\A p \in Procs : pc[p] # "idle" => StageHolds(p))
    /\ [][\A p \in Procs : (pc[p] # "idle" /\ pc'[p] # "idle") => StageOf(pc[p]) <= StageOf(pc'[p])]_vars

\* A call that was given an image has returned: it went through every stage
C14_Witness == \E d \in Returned : d.image.given

\* The calls of a user in which _ensure_default_persona has returned
Ensured(user_id) == {c \in Calls : c.user_id = user_id /\ c.default_id # 0}

\* C15: with the calls run one after another, _ensure_default_persona creates
\* the default persona in the first call of a user and in no later one, and
\* returns the id of that one persona in every call of the user.
C15_EnsureDefaultIdempotent ==
    \A u \in Users :
        /\ \A c, d \in Ensured(u) : c.default_id = d.default_id
        /\ \A c \in Ensured(u) :
              /\ \E r \in personas :
                    r.persona_id = c.default_id /\ r.user_id = u /\ r.name = DEFAULT_PERSONA.name
              /\ c.default_created # 0 <=> \A d \in Ensured(u) : c.id <= d.id
              /\ c.default_created # 0 => c.default_created = c.default_id

\* Two calls of one user have got the default persona
C15_Witness ==
    \E u \in Users : \E c, d \in Ensured(u) : c.id # d.id

\* The calls whose persona materialization (_create_personas) is over
Materialized ==
    {d \in done : d.status = "returned" \/ StageOf(d.stage) >= 9}
    \cup {loc[p] : p \in {q \in Procs : pc[q] # "idle" /\ (pc[q] = "update_personas" \/ StageOf(pc[q]) >= 9)}}

\* The elements of a sequence
Range(seq) == {seq[i] : i \in DOMAIN seq}

\* The names of the user's personas when the materialization of call c began:
\* those the user had when the call began and the default persona, if the call
\* made it
KnownBefore(c) ==
    {r.name : r \in {o \in personas : o.user_id = c.user_id
                                      /\ (o.persona_id \in c.known0 \/ o.persona_id = c.default_created)}}

C17_UpdatedWerePresent ==
    \A c \in Returned :
        LET extracted == Range(Persons(c.entities).v)
        IN /\ Range(c.upd_ps) =
                 {r.persona_id : r \in {o \in personas : /\ o.user_id = c.user_id
                                                          /\ o.name \in extracted
                                                          /\ o.persona_id \in c.known0}}
           /\ Range(c.upd_ps) \cap {n.persona_id : n \in Range(c.new_ps)} = {}

\* The calls that have chosen their speaking persona
Spoke ==
    {d \in done : d.speaker # 0} \cup {loc[p] : p \in {q \in Procs : pc[q] # "idle" /\ loc[q].speaker # 0}}

\* C18: the speaking persona of a call is the persona with the given persona_id
\* when that persona belongs to the user; otherwise (no persona_id, or the id of
\* no persona of the user) it is the user's default persona; and no call ends
\* with an exception in the choice of the speaker.
C18_SpeakerOfCall ==
    /\ \A c \in Spoke :
          LET own == {r \in personas : r.user_id = c.user_id}
          IN IF \E r \in own : r.persona_id = c.persona_id
             THEN c.speaker = c.persona_id
             ELSE \E r \in own : r.persona_id = c.speaker /\ r.name = DEFAULT_PERSONA.name
    /\ \A d \in done : d.stage # "reply_personas"

\* A returned call that was given the id of a persona of another user
C18_Witness ==
    \E d \in Returned : \E r \in personas :
        r.persona_id = d.persona_id /\ r.user_id # d.user_id /\ d.speaker # 0

\* C20: with the calls run one after another, the log created by a returned
\* call carries the reply the call returned as its assistant_reply, and a call
\* changes no log but its own.
C20_ReplySavedOnOwnLog ==
    /\ [](\A d \in Returned :
            \E r \in logs : /\ r.log_id = d.log_id
                            /\ "assistant_reply" \in DOMAIN r.processing_metadata
                            /\ r.processing_metadata["assistant_reply"] = d.reply)
    /\ [][\A r \in logs :
            r \in logs' \/ \E p \in Procs : pc[p] # "idle" /\ r.log_id = loc[p].log_id]_vars

\* Two calls of one user have returned, each with its own reply on its own log
C20_Witness ==
    \E d, e \in Returned :
        /\ d.user_id = e.user_id /\ d.log_id # e.log_id /\ d.reply # e.reply
        /\ \A c \in {d, e} : \E r \in logs :
              r.log_id = c.log_id /\ Get(r.processing_metadata, "assistant_reply", 0) = c.reply

\* The calls whose reply request has been built
Asked == {c \in Calls : Len(c.messages) > 0}

\* The parts of the messages of a request, in their order
Parts(messages) == [i \in DOMAIN messages |-> messages[i].part]

\* The ids a request carries in its message of a part, none when it has no such message
IdsOf(messages, part) ==
    IF \E i \in DOMAIN messages : messages[i].part = part
    THEN messages[CHOOSE i \in DOMAIN messages : messages[i].part = part].ids
    ELSE << >>

\* The memories of a user with an importance of 0.7 or more
HighMemories(user_id) ==
    {m \in memories : m.user_id = user_id /\ m.importance_score.t = "num" /\ m.importance_score.v >= 7}

\* C19: the reply request holds, in this order, the persona preamble, then (if
\* any) at most 3 memories of the user each with importance >= 0.7, then (if any)
\* at most the user's 5 most recent logs oldest first, and the text of the call
\* as its last message; used_memories has at most 3 entries, each a memory of the
\* user with importance >= 0.7.
C19_ReplyRequestOrder ==
    \A c \in Asked :
        LET mem_ids == IdsOf(c.messages, "memories")
            log_ids == IdsOf(c.messages, "logs")
            mine == {r \in logs : r.user_id = c.user_id /\ r.timestamp <= c.log_id}
            Row(id) == CHOOSE r \in logs : r.log_id = id
        IN /\ Parts(c.messages) \in {<<"persona", "text">>, <<"persona", "memories", "text">>,
                                      <<"persona", "logs", "text">>, <<"persona", "memories", "logs", "text">>}
           /\ c.messages[1].ids = <<c.speaker>>
           /\ c.messages[Len(c.messages)].ids = <<c.id>>
           /\ mem_ids = c.used_memories
           /\ Len(c.used_memories) <= 3
           /\ \A i \in DOMAIN c.used_memories :
                 \E m \in HighMemories(c.user_id) : m.memory_id = c.used_memories[i]
           /\ Len(log_ids) <= 5
           /\ \A i \in DOMAIN log_ids : \E r \in mine : r.log_id = log_ids[i]
           /\ \A i, j \in DOMAIN log_ids : i < j => Row(log_ids[i]).timestamp < Row(log_ids[j]).timestamp
           /\ \A r \in mine :
                 \/ r.log_id \in Range(log_ids)
                 \/ Cardinality({o \in mine : o.timestamp > r.timestamp}) >= 5

\* A returned call of a user with six logs, four memories of high importance
\* and one of low importance: its request held five logs and three memories
C19_Witness ==
    \E c \in Returned :
        /\ Len(IdsOf(c.messages, "logs")) = 5
        /\ Cardinality({r \in logs : r.user_id = c.user_id}) >= 6
        /\ Len(c.used_memories) = 3
        /\ Cardinality(HighMemories(c.user_id)) >= 4
        /\ \E m \in memories : m.user_id = c.user_id /\ m \notin HighMemories(c.user_id)

\* The sum of the interaction counters of a set of personas
RECURSIVE SumCounts(_)
SumCounts(rows) ==
    IF rows = {} THEN 0
    ELSE LET r == CHOOSE o \in rows : TRUE
         IN r.interaction_count + SumCounts(rows \ {r})

\* The number of calls of a user that have incremented a counter: the returned
\* ones and those about to return
Counted(user_id) ==
    Cardinality({d \in Returned : d.user_id = user_id})
    + Cardinality({p \in Procs : pc[p] = "return" /\ loc[p].user_id = user_id})

\* C21: in any interleaving of the calls, the interaction counters of a user's
\* personas sum to the number of the user's calls that have incremented one (all
\* returned calls, when none is at its return); a step changes a counter only
\* of the speaking persona of the call that takes it, by exactly 1, and no
\* counter decreases.
C21_CountersSumToCalls ==
    /\ [](\A u \in Users : SumCounts({r \in personas : r.user_id = u}) = Counted(u))
    /\ [][\A r \in personas : \E n \in personas' :
            /\ n.persona_id = r.persona_id
            /\ \/ n.interaction_count = r.interaction_count
               \/ /\ n.interaction_count = r.interaction_count + 1
                  /\ \E p \in Procs : /\ pc[p] = "increment" /\ pc'[p] = "return"
                                       /\ loc[p].speaker = r.persona_id
                                       /\ loc[p].user_id = r.user_id]_vars

\* Two overlapping calls have both incremented the counter of the same speaking
\* persona, which stands at 2
C21_Witness ==
    /\ pc[1] = "return" /\ pc[2] = "return"
    /\ loc[1].speaker = loc[2].speaker
    /\ \E r \in personas : r.persona_id = loc[1].speaker /\ r.interaction_count = 2

\* The formats the image grounding is to accept, and what each is sent as
AllowList == {"jpeg", "png", "bmp", "webp", "heic", "tiff"}
SentAs(format) == IF format = "jpg" THEN "jpeg" ELSE IF format = "tif" THEN "tiff" ELSE format

\* The calls that have gone through _analyze_image, or ended in it
Grounded ==
    {d \in done : d.image.given}
    \cup {loc[p] : p \in {q \in Procs : pc[q] \notin {"idle", "get_profile", "create_profile", "ensure_lookup",
                                                        "ensure_create", "image"} /\ loc[q].image.given}}

\* C22: a call given a non-empty image of a format of the allow-list, or of the
\* aliases jpg and tif, does not end with the ValueError of the validation, and
\* its multimodal request is issued with the format (jpg as jpeg, tif as tiff).
C22_AllowListAccepted ==
    \A c \in Grounded :
        (~c.image.empty /\ c.image.format \in AllowList \cup {"jpg", "tif"})
            => /\ ~(c.status = "raised" /\ c.exc = "ValueError")
               /\ c.requests >= 1
               /\ c.image_sent = SentAs(c.image.format)

\* An image the validation is to refuse: an empty file, or a format that is
\* neither of the allow-list nor an alias of one of its formats
Refused(image) == image.empty \/ image.format \notin AllowList \cup {"jpg", "jpe", "tif"}

Window == {m \in memories : m.user_id = rep.user_id /\ m.created_at >= Cutoff(rep.time_range)}

\* C24: a finished call of classify_memories_by_emotion has put every memory of
\* the window in exactly one of the three lists, the one of its memory_type; the
\* three counts are the lengths of the lists and sum to the total; each ratio is
\* its count over the total, and the ratios are there exactly when the total is
\* not 0.
C24_ClassifyPartitions ==
    (rep.op = "classify" /\ rep.stage = "done") =>
        /\ rep.out.exc = "none"
        /\ LET out == rep.out
               st == out.statistics
               In(list, m) == \E i \in DOMAIN list : list[i] = m.memory_id
           IN /\ st.total_memories = Cardinality(Window)
              /\ \A m \in Window :
                    /\ In(out.positive, m) <=> m.memory_type = JStr("positive")
                    /\ In(out.negative, m) <=> m.memory_type = JStr("negative")
                    /\ In(out.neutral, m) <=> m.memory_type = JStr("neutral")
                    /\ In(out.positive, m) \/ In(out.negative, m) \/ In(out.neutral, m)
              /\ st.positive_count = Len(out.positive)
              /\ st.negative_count = Len(out.negative)
              /\ st.neutral_count = Len(out.neutral)
              /\ st.positive_count + st.negative_count + st.neutral_count = st.total_memories
              /\ ("positive_ratio" \in DOMAIN st) <=> st.total_memories # 0
              /\ ("negative_ratio" \in DOMAIN st) <=> st.total_memories # 0
              /\ ("neutral_ratio" \in DOMAIN st) <=> st.total_memories # 0
              /\ st.total_memories # 0 =>
                    /\ st.positive_ratio = <<st.positive_count, st.total_memories>>
                    /\ st.negative_ratio = <<st.negative_count, st.total_memories>>
                    /\ st.neutral_ratio = <<st.neutral_count, st.total_memories>>

\* The positive ratios of the trajectory of a trend call, in the order of the dates
PositiveRatios ==
    LET dates == Ascending(DOMAIN rep.trajectory)
    IN [i \in DOMAIN dates |-> rep.trajectory[dates[i]].positive_ratio]

\* a - b as a ratio, and whether a ratio is more than 1/100
Minus(a, b) == <<a[1] * b[2] - b[1] * a[2], a[2] * b[2]>>
Marked(r) == 100 * r[1] > r[2]

\* A finished trend call for a trajectory of at least 2 dates
TrendDone == rep.op = "trend" /\ rep.stage = "done" /\ Cardinality(DOMAIN rep.trajectory) >= 2

\* C25 as stated: for at least 2 dates the label is 'improving' whenever the
\* positive ratios strictly increase from each date to the next, 'declining'
\* whenever they strictly decrease, 'stable' whenever they are all equal, and
\* trend_strength is the absolute value of the slope.
C25_TrendFollowsSign ==
    TrendDone =>
        LET y == PositiveRatios
            Steps == 1..(Len(y) - 1)
        IN /\ (\A i \in Steps : Minus(y[i + 1], y[i])[1] > 0) => rep.out.overall_trend = "improving"
           /\ (\A i \in Steps : Minus(y[i + 1], y[i])[1] < 0) => rep.out.overall_trend = "declining"
           /\ (\A i \in Steps : Minus(y[i + 1], y[i])[1] = 0) => rep.out.overall_trend = "stable"
           /\ rep.out.trend_strength = <<Abs(rep.out.positive_trend[1]), rep.out.positive_trend[2]>>

\* C25 amended: the label is 'improving' whenever the positive ratios rise by
\* more than 0.01 from each date to the next and 'declining' whenever they fall
\* by more than 0.01, 'stable' whenever they are all equal; a trajectory that
\* strictly increases is never 'declining' and one that strictly decreases is
\* never 'improving'; trend_strength is the absolute value of the slope.
C25_TrendFollowsMarkedSteps ==
    TrendDone =>
        LET y == PositiveRatios
            Steps == 1..(Len(y) - 1)
        IN /\ (\A i \in Steps : Marked(Minus(y[i + 1], y[i]))) => rep.out.overall_trend = "improving"
           /\ (\A i \in Steps : Marked(Minus(y[i], y[i + 1]))) => rep.out.overall_trend = "declining"
           /\ (\A i \in Steps : Minus(y[i + 1], y[i])[1] = 0) => rep.out.overall_trend = "stable"
           /\ (\A i \in Steps : Minus(y[i + 1], y[i])[1] > 0) => rep.out.overall_trend # "declining"
           /\ (\A i \in Steps : Minus(y[i + 1], y[i])[1] < 0) => rep.out.overall_trend # "improving"
           /\ rep.out.trend_strength = <<Abs(rep.out.positive_trend[1]), rep.out.positive_trend[2]>>

\* The trend of the positive ratios 0, 0.5, 1 of three dates was labelled improving
C25_Witness ==
    /\ TrendDone
    /\ PositiveRatios = <<<<0, 1>>, <<1, 2>>, <<1, 1>>>>
    /\ rep.out.overall_trend = "improving"

\* C10: a call whose emotion response did not parse persists a log with PAD
\* (0.5, 0.5, 0.5) and label neutral and an analysis with confidence 0 and
\* method fallback, and returns a pad_analysis with method fallback.
C10_EmotionFallbackRecord ==
    \A d \in Returned :
        d.emo_unparsed =>
            /\ \E l \in logs :
                  /\ l.log_id = d.log_id
                  /\ l.detected_emotion = JObj([pleasure |-> JNum(5), arousal |-> JNum(5), dominance |-> JNum(5)])
                  /\ l.emotion_label = JStr("neutral")
            /\ \E a \in analyses :
                  /\ a.interaction_log_id = d.log_id
                  /\ a.confidence_scores.confidence = JNum(0)
                  /\ a.analysis_method = JStr("fallback")
            /\ Get(d.pad, "analysis_method", JNull) = JStr("fallback")

\* The memories of the window of the report that was asked for
ReportWindow ==
    {m \in memories : m.user_id = rep.user_id
                        /\ m.created_at >= Cutoff(IF rep.op = "weekly" THEN 7 ELSE 30)}

\* The places of the persons lists of the window's memories that name a person
PlacesOf(person) ==
    UNION {{<<m.memory_id, i>> : i \in {k \in DOMAIN m.entities.v.persons.v :
                                            m.entities.v.persons.v[k] = person}} :
              m \in ReportWindow}

PositivePlacesOf(person) ==
    {e \in PlacesOf(person) :
        \E m \in ReportWindow : m.memory_id = e[1] /\ m.memory_type = JStr("positive")}

Reported == rep.op \in {"weekly", "monthly"} /\ rep.stage = "done" /\ rep.out.exc = "none"

\* C27: in a report, every person named in the persons lists of the window's
\* memories has a relationship_strength of its mention count times
\* (1 + positive mentions / mention count), which lies between the count and
\* twice the count, and no other person has one.
C27_StrengthOfMentions ==
    Reported =>
        LET strength == rep.out.persona_interactions.relationship_strength
            named == {person \in {JStr("Alice"), JStr("Bob")} : PlacesOf(person) # {}}
        IN /\ DOMAIN strength = named
           /\ \A person \in named :
                 LET count == Cardinality(PlacesOf(person))
                     positive == Cardinality(PositivePlacesOf(person))
                     s == strength[person]
                 IN /\ s[2] > 0
                    /\ s[1] * count = count * (count + positive) * s[2]
                    /\ count * s[2] <= s[1] /\ s[1] <= 2 * count * s[2]

\* A report for memories that name Alice 4 times, 3 of them in positive
\* memories, and Bob fewer times: Alice's strength is 7
C27_Witness ==
    /\ Reported
    /\ Cardinality(PlacesOf(JStr("Alice"))) = 4
    /\ Cardinality(PositivePlacesOf(JStr("Alice"))) = 3
    /\ PlacesOf(JStr("Bob")) # {}
    /\ rep.out.persona_interactions.relationship_strength[JStr("Alice")][1]
         = 7 * rep.out.persona_interactions.relationship_strength[JStr("Alice")][2]

\* The logs of the window of the report that was asked for
ReportLogs ==
    {l \in logs : l.user_id = rep.user_id
                    /\ l.timestamp >= Cutoff(IF rep.op = "weekly" THEN 7 ELSE 30)}

ReportDates == {DateOf(l.timestamp) : l \in ReportLogs}

\* The trend label a trajectory analysis reports
Trend(trajectory) ==
    IF "trend" \in DOMAIN trajectory THEN trajectory.trend
    ELSE IF "trend" \in DOMAIN trajectory.trend_analysis THEN trajectory.trend_analysis.trend
    ELSE trajectory.trend_analysis.overall_trend

\* C26: the trajectory analysis of a report says no_data when the window has
\* no interaction log, insufficient_data when its logs fall on fewer than 2
\* dates, and improving, declining or stable only when they fall on 2 or more.
C26_TrendNeedsTwoDates ==
    Reported =>
        LET trend == Trend(rep.out.emotion_trajectory)
        IN /\ ReportLogs = {} => trend = "no_data"
           /\ ReportLogs # {} /\ Cardinality(ReportDates) < 2 => trend = "insufficient_data"
           /\ Cardinality(ReportDates) >= 2 <=> trend \in {"improving", "declining", "stable"}

\* A report over two logs of one date, which says insufficient_data
C26_Witness ==
    /\ Reported
    /\ Cardinality(ReportLogs) = 2 /\ Cardinality(ReportDates) = 1
    /\ rep.out.emotion_trajectory.trend_analysis.trend = "insufficient_data"

\* The values of a PAD dimension in the window of the report, in tenths, in the
\* order of the ids of the logs; a log without PAD values has none, and a
\* dimension a log does not give counts as 0.5
PadValues(dimension) ==
    LET kept == {l \in ReportLogs : DOMAIN l.detected_emotion.v # {}}
        ids == Ascending({l.log_id : l \in kept})
        Of(id) == CHOOSE l \in kept : l.log_id = id
    IN [i \in DOMAIN ids |->
           IF dimension \in DOMAIN Of(ids[i]).detected_emotion.v
           THEN Of(ids[i]).detected_emotion.v[dimension].v ELSE 5]

\* The variance of a list of values in tenths, as a ratio: the mean of the
\* squares minus the square of the mean
Variance(values) ==
    LET n == Len(values)
    IN <<n * Sum([i \in DOMAIN values |-> values[i] * values[i]]) - Sum(values) * Sum(values),
         100 * n * n>>

\* One stability is smaller than another: both are 1 minus a root, and the
\* ratio under the root of the first is the greater
Smaller(a, b) ==
    /\ a.one_minus = "root" /\ b.one_minus = "root"
    /\ a.of[1] * b.of[2] > b.of[1] * a.of[2]

PadDimensions == {"pleasure", "arousal", "dominance"}

C29_AnalyticsNeverRaise ==
    rep.op \in {"classify", "weekly", "monthly"} /\ rep.stage = "done" =>
        /\ rep.out.exc = "none"
        /\ rep.op \in {"weekly", "monthly"} =>
              {"summary", "emotion_trajectory", "memory_distribution",
               "persona_interactions", "pad_trends"} \subseteq DOMAIN rep.out

\* C30: a profile is created once per user: no step of any call writes the
\* row of a user who has a profile, so its baseline, tags, roles and creation
\* time stay as they were made.
C30_ProfileCreatedOnce ==
    [][\A u \in Users : profiles[u].exists => profiles'[u] = profiles[u]]_vars

\* The limits a reader is asked with
Limits == {1, 2, 50}

\* A list of rows holds, newest first by the time field, the limit newest rows
\* of the set owned, and nothing else
NewestOf(out, owned, time, limit) ==
    /\ \A i \in DOMAIN out : out[i] \in owned
    /\ \A i, j \in DOMAIN out : i < j => out[i][time] > out[j][time]
    /\ Len(out) = (IF Cardinality(owned) < limit THEN Cardinality(owned) ELSE limit)
    /\ \A r \in owned : (\E i \in DOMAIN out : out[i] = r)
                          \/ Cardinality({o \in owned : o[time] > r[time]}) >= limit

\* C31: a log, memory or persona written for a user is returned by the reader
\* of its table for that user, under the id its write returned (logs and
\* memories newest first, the limit newest of them), and by no reader for
\* another user; the memories read with a type are those of the type.
C31_ReadersReturnOwnRows ==
    /\ \A u \in Users : \A limit \in Limits :
          /\ NewestOf(get_interaction_logs(u, limit), {r \in logs : r.user_id = u},
                      "timestamp", limit)
          /\ NewestOf(get_memory_events(u, limit), {r \in memories : r.user_id = u},
                      "created_at", limit)
          /\ \A type \in {JStr("positive"), JStr("negative"), JStr("neutral")} :
                NewestOf(get_memory_events_typed(u, type, limit),
                         {r \in memories : r.user_id = u /\ r.memory_type = type},
                         "created_at", limit)
          /\ Range(get_personas(u)) = {r \in personas : r.user_id = u}
          /\ Len(get_personas(u)) = Cardinality({r \in personas : r.user_id = u})
    /\ \A c \in Calls :
          /\ c.log_id # 0 =>
                Cardinality({r \in Range(get_interaction_logs(c.user_id, 50)) : r.log_id = c.log_id}) = 1
          /\ c.mem_id # 0 =>
                Cardinality({r \in Range(get_memory_events(c.user_id, 50)) : r.memory_id = c.mem_id}) = 1
          /\ \A i \in DOMAIN c.new_ps :
                Cardinality({r \in Range(get_personas(c.user_id)) :
                                r.persona_id = c.new_ps[i].persona_id /\ r.name = c.new_ps[i].name}) = 1
          /\ \A u \in Users \ {c.user_id} :
                /\ \A r \in Range(get_interaction_logs(u, 50)) : r.log_id # c.log_id
                /\ \A r \in Range(get_memory_events(u, 50)) : r.memory_id # c.mem_id
                /\ \A r \in Range(get_personas(u)) : \A i \in DOMAIN c.new_ps :
                      r.persona_id # c.new_ps[i].persona_id

\* Both users have a log and a memory, u1 has two logs, so that a read of one
\* log leaves the older out, and two memories of different types
C31_Witness ==
    /\ Len(get_interaction_logs("u1", 50)) = 2 /\ Len(get_interaction_logs("u1", 1)) = 1
    /\ Len(get_memory_events("u1", 50)) = 2
    /\ Len(get_memory_events_typed("u1", JStr("positive"), 50)) = 1
    /\ \E c \in Returned : c.user_id = "u1" /\ Len(c.new_ps) > 0

\* C32: with two calls of one user interleaved, the reply of each call is
\* stored on the log the call created: a reply is written only to the log of
\* the call that writes it, a reply once stored is not overwritten, and the
\* log of every returned call has the call's reply as its assistant_reply.
C32_InterleavedRepliesOnOwnLogs ==
    /\ [][\A r \in logs : r \notin logs' =>
            /\ "assistant_reply" \notin DOMAIN r.processing_metadata
            /\ \E p \in Procs : pc[p] = "save_reply" /\ pc'[p] # "save_reply"
                                  /\ loc[p].log_id = r.log_id]_vars
    /\ [](\A d \in Returned : \E r \in logs :
            /\ r.log_id = d.log_id
            /\ Get(r.processing_metadata, "assistant_reply", 0) = d.reply)

\* C33: a call all of whose requests succeed and are answered in the expected
\* form, made after every unusual event of the run has happened, returns a
\* result, whatever the earlier calls have stored.
C33_LaterCallsReturn == \A d \in done : d.devs0 = MaxDevs => d.status = "returned"

\* The calls that raised because their reply request failed at transport
FailedAtReply == {d \in done : d.status = "raised" /\ d.stage = "reply_chat" /\ d.exc = "RuntimeError"}

\* C34: a call whose reply request fails at transport raises and leaves in the
\* store what it wrote before: its log, without assistant_reply, the analysis
\* of the log, its new personas and its memory; it increments no counter, and
\* the step in which it raises writes nothing.
C34_FailedReplyKeepsWrites ==
    /\ [](\A d \in FailedAtReply :
            /\ \E r \in logs : /\ r.log_id = d.log_id /\ r.user_id = d.user_id
                                /\ "assistant_reply" \notin DOMAIN r.processing_metadata
            /\ \E a \in analyses : a.interaction_log_id = d.log_id
            /\ \E m \in memories : m.memory_id = d.mem_id /\ m.interaction_log_id = d.log_id
            /\ \A i \in DOMAIN d.new_ps :
                  \E r \in personas : r.persona_id = d.new_ps[i].persona_id /\ r.user_id = d.user_id)
    /\ [](\A r \in personas :
            r.interaction_count =
                Cardinality({c \in Calls : c.speaker = r.persona_id
                                           /\ (c \in Returned \/ \E p \in Procs : pc[p] = "return" /\ loc[p] = c)}))
    /\ [][\A p \in Procs : pc[p] = "reply_chat" /\ pc'[p] = "idle" => store' = store]_vars

\* A call that made a persona failed at its reply request, and a later call of
\* the same user has returned
C34_Witness ==
    \E d \in FailedAtReply : \E e \in Returned :
        /\ Len(d.new_ps) > 0 /\ e.user_id = d.user_id /\ e.id > d.id
        /\ \E r \in personas : r.persona_id = d.speaker /\ r.interaction_count = 1

\* C35: in the PAD trends of a report the slope of a dimension is taken over
\* the logs in the order of their timestamps: it is positive when the values
\* strictly increase with time and negative when they strictly decrease.
C35_PadSlopeFollowsTime ==
    Reported /\ Len(PadValues("pleasure")) >= 2 =>
        \A d \in PadDimensions :
            LET values == PadValues(d)
                slope == rep.out.pad_trends.trends[d]
            IN /\ (\A i \in 1..(Len(values) - 1) : values[i] < values[i + 1]) => slope[1] > 0
               /\ (\A i \in 1..(Len(values) - 1) : values[i] > values[i + 1]) => slope[1] < 0

\* The logs of the report's window on a date, and those among them with one of
\* a set of labels
LogsOn(date) == {l \in ReportLogs : DateOf(l.timestamp) = date}
LabelledOn(date, labels) == {l \in LogsOn(date) : l.emotion_label.v \in labels}

\* In the trajectory of a report a log counts as positive exactly for the
\* labels happy, excited, content, relaxed, as negative exactly for sad, angry,
\* anxious, and as neutral otherwise
LabelsMapped ==
    Reported /\ ReportLogs # {} =>
        \A date \in ReportDates :
            LET entry == rep.out.emotion_trajectory.daily_trajectory[date]
                positive == Cardinality(LabelledOn(date, {"happy", "excited", "content", "relaxed"}))
                negative == Cardinality(LabelledOn(date, {"sad", "angry", "anxious"}))
                total == Cardinality(LogsOn(date))
            IN /\ entry.positive_ratio = <<positive, total>>
               /\ entry.negative_ratio = <<negative, total>>
               /\ entry.neutral_ratio = <<total - positive - negative, total>>

WindowOfType(type) == {m \in ReportWindow : m.memory_type = JStr(type)}

\* C37: the dominant_emotion of a report's summary is a memory type with the
\* greatest count among the window's memories; for a window without memories
\* it is neutral, and the summary has no insight that the period was positive.
C37_DominantEmotion ==
    Reported =>
        LET summary == rep.out.summary
        IN /\ summary.dominant_emotion \in EmotionKeys
           /\ \A type \in {"positive", "negative", "neutral"} :
                 Cardinality(WindowOfType(type)) <= Cardinality(WindowOfType(summary.dominant_emotion.v))
           /\ ReportWindow = {} =>
                 /\ summary.dominant_emotion = JStr("neutral")
                 /\ \A i \in DOMAIN summary.key_insights : summary.key_insights[i] # "positive"

\* What the store holds for a user: the profile, the logs, the analyses of the
\* logs, the personas and the memories
OwnedBy(u) ==
    <<profiles[u],
      {r \in logs : r.user_id = u},
      {a \in analyses : \E r \in logs : r.user_id = u /\ r.log_id = a.interaction_log_id},
      {r \in personas : r.user_id = u},
      {r \in memories : r.user_id = u}>>

\* C38: a step of process_interaction for one user writes nothing of another
\* user: while no call for a user is under way, the user's profile, logs,
\* analyses, personas (with their counters) and memories do not change,
\* whatever text and persona_id the calls for other users were given.
C38_OtherUsersUntouched ==
    [][\A u \in Users :
         (\A p \in Procs : pc[p] # "idle" => loc[p].user_id # u) => OwnedBy(u)' = OwnedBy(u)]_vars

\* A call that was given the id of a persona of another user, who has a log and
\* a memory, has returned with a persona of its own user as speaker
C38_Witness ==
    \E d \in Returned : \E r \in personas :
        /\ r.persona_id = d.persona_id /\ r.user_id # d.user_id
        /\ \E s \in personas : s.persona_id = d.speaker /\ s.user_id = d.user_id /\ s.interaction_count = 1
        /\ r.interaction_count = (IF r.name = DEFAULT_PERSONA.name THEN 1 ELSE 0)
        /\ \E l \in logs : l.user_id = r.user_id /\ "assistant_reply" \in DOMAIN l.processing_metadata
        /\ \E m \in memories : m.user_id = r.user_id

\* The number of requests a stage of a call made
AskedBy(c, stage) == Len(SelectSeq(c.asked, LAMBDA s : s = stage))

\* The numbers of attempts _post can make for one request
Attempts ==
    {Len(PostRun(PostStart, max_retries, a).log) : a \in Answers(Prose)}

\* The requests of a call are within the bounds of the pipeline
RequestsBounded(c) ==
    /\ AskedBy(c, "caption") <= (IF c.image.given THEN 1 ELSE 0)
    /\ \A stage \in {"emotion", "entities", "style", "temporal", "reply"} : AskedBy(c, stage) <= 1
    /\ AskedBy(c, "persona") <= Len(Persons(c.entities).v)
    /\ AskedBy(c, "topic") + AskedBy(c, "importance") <= 2
    /\ c.requests = Len(c.asked)
    /\ \A i \in DOMAIN c.asked :
          c.asked[i] \in {"caption", "emotion", "entities", "style", "temporal", "persona",
                          "topic", "importance", "reply"}

\* C39: every call of process_interaction ends, by returning or by raising; it
\* makes at most one caption request, one emotion, one entity, one style and
\* one temporal request, one inference request per extracted person name, two
\* memory requests and one reply request, and a request makes at most
\* max_retries + 1 attempts.
C39_CallsEndWithinBounds ==
    /\ \A p \in Procs : (pc[p] # "idle") ~> (pc[p] = "idle")
    /\ [](\A c \in Calls : RequestsBounded(c))
    /\ [](\A n \in Attempts : n <= max_retries + 1)

\* A call that extracted two names, one of them new to the user, has returned
\* after the seven requests of its stages and one inference request; a request
\* can take all of its max_retries + 1 attempts
C39_Witness ==
    /\ \E c \in Returned :
          /\ Len(Persons(c.entities).v) = 2
          /\ AskedBy(c, "persona") = 1
          /\ AskedBy(c, "topic") = 1 /\ AskedBy(c, "importance") = 1
          /\ c.requests = 8
    /\ max_retries + 1 \in Attempts

=============================================================================
